---- MODULE Spec2Model ----
(***************************************************************************)
(* Battle engine of src/main.py: the Monster/Move data model, the damage,  *)
(* accuracy and experience resolvers, the BattleState object with its      *)
(* message queue of deferred callbacks, and handle_battle_input, the one   *)
(* entry point through which every key event reaches a battle.             *)
(*                                                                         *)
(* Python lists are sequences; Python indices are kept 0-based (the        *)
(* cursor arithmetic of the source is modular), At(list, i) reads          *)
(* list[i].  A closure stored in the queue is a record naming the nested   *)
(* function and the values it captured.  Every random draw of one handler  *)
(* call is an input of that call (rnd).                                    *)
(***************************************************************************)
EXTENDS Integers, Sequences, FiniteSets, TLC

VARIABLES
    battle,                  \* active_battle: the BattleState, None out of battle
    game_mode,               \* "overworld", "party_menu", "battle"; "crashed" once
                             \* an exception has left main
    player_party,            \* the list BattleState.player_party aliases
    player_storage,
    party_selection,
    storage_selection,
    party_menu_view,
    party_reorder_source,
    earned_badges,
    defeated_trainers_set,
    encounters,              \* battles begun so far
    late_events              \* events handled since the battle ended

menu_vars == <<party_selection, storage_selection, party_menu_view, party_reorder_source>>

progress_vars == <<earned_badges, defeated_trainers_set>>

vars == <<battle, game_mode, player_party, player_storage, menu_vars, progress_vars,
          encounters, late_events>>

-----------------------------------------------------------------------------
(* Bounds of the model *)

MaxPartyLen == 2      \* the player party holds 1..MaxPartyLen monsters
MaxTeamLen == 2       \* a trainer's team holds 1..MaxTeamLen monsters
MaxDialogue == 2      \* a trainer has 0..MaxDialogue post-battle lines
MaxLateEvents == 2    \* events followed after a battle has ended
MaxEncounters == 1    \* battles followed in one game
MaxExpAmount == 50    \* gain_experience is given 0..MaxExpAmount
MaxLevel == 4         \* experience is given to monsters below this level
MaxDamageHp == 40     \* the HP of the defender calculate_damage is tried on
MaxDrain == 12        \* advances a drain of the queue is followed for

(* Program constants *)

MAX_PARTY_SIZE == 6
DefaultSpeed == 10
DefaultExpToNext == 20

-----------------------------------------------------------------------------
(* Python helpers *)

At(list, i) == list[i + 1]

\* mutant: the first entry is written whatever the index
SetAtFirst(list, i, v) == [list EXCEPT ![1] = v]

SetAt(list, i, v) == [list EXCEPT ![i + 1] = v]

Max(a, b) == IF a >= b THEN a ELSE b

Indices(list) == 0 .. (Len(list) - 1)

\* min of a non-empty set of integers
MinOf(S) == CHOOSE x \in S : \A y \in S : x <= y

\* Optional[T]: None is the empty sequence, a value v is <<v>>
None == <<>>

Some(v) == <<v>>

Value(opt) == opt[1]

-----------------------------------------------------------------------------
(* Moves: create_move_library.  accuracy is kept in hundredths. *)

Move(name, power, accuracy, type) ==
    [name |-> name, power |-> power, accuracy |-> accuracy, type |-> type]

create_move_library ==
    [n \in {"Cinder Snap", "Leaf Gust", "Ripple Shot", "Nuzzle",
             "Glacier Spit", "Aerial Rake", "Shadow Swipe", "Night Pounce"} |->
        CASE n = "Cinder Snap"  -> Move(n, 18, 95, "fire")
          [] n = "Leaf Gust"    -> Move(n, 16, 90, "grass")
          [] n = "Ripple Shot"  -> Move(n, 20, 85, "water")
          [] n = "Nuzzle"       -> Move(n, 10, 100, "normal")
          [] n = "Glacier Spit" -> Move(n, 22, 85, "ice")
          [] n = "Aerial Rake"  -> Move(n, 19, 90, "flying")
          [] n = "Shadow Swipe" -> Move(n, 17, 95, "dark")
          [] n = "Night Pounce" -> Move(n, 14, 100, "dark")]

(* Monsters.  assets/monsters.json is data outside the source.  The three   *)
(* species below are entries that set level, max_hp, attack, defense and    *)
(* moves and leave the rest to the defaults of create_monster_templates:    *)
(* small, sturdy monsters, so that a hit of a weak move takes two or three  *)
(* HP and a battle is a few turns long.                                     *)

starter_names == <<"Flarekit", "Dripfin", "Spriglet">>

SpeciesMoves(name) ==
    CASE name = "Flarekit" -> <<"Nuzzle", "Cinder Snap">>
      [] name = "Dripfin"  -> <<"Ripple Shot">>
      [] name = "Spriglet" -> <<"Nuzzle">>

create_monster_templates(name) ==
    [name |-> name,
     level |-> 1,
     max_hp |-> 4,
     current_hp |-> 4,
     attack |-> 3,
     defense |-> 20,
     speed |-> DefaultSpeed,
     moves |-> [i \in 1 .. Len(SpeciesMoves(name)) |->
                   create_move_library[SpeciesMoves(name)[i]]],
     exp |-> 0,
     exp_to_next |-> DefaultExpToNext]

\* mutant: the copy is made at full health
clone_monster_healed(template) == [template EXCEPT !.current_hp = template.max_hp]

\* clone_monster copies every field into a new object; objects are values here
clone_monster(template) ==
    [name |-> template.name,
     level |-> template.level,
     max_hp |-> template.max_hp,
     current_hp |-> template.current_hp,
     attack |-> template.attack,
     defense |-> template.defense,
     speed |-> template.speed,
     moves |-> template.moves,
     exp |-> template.exp,
     exp_to_next |-> template.exp_to_next]

is_fainted(monster) == monster.current_hp <= 0

heal(monster) == [monster EXCEPT !.current_hp = monster.max_hp]

\* int(x * 1.3) for a non-negative integer x
GrowThreshold(x) == (x * 13) \div 10

\* mutant: a level-up discards the experience beyond the threshold
LevelUpDropsRemainder(m) ==
    [m EXCEPT !.exp = 0,
              !.level = m.level + 1,
              !.max_hp = m.max_hp + 3,
              !.attack = m.attack + 2,
              !.defense = m.defense + 2,
              !.speed = m.speed + 1,
              !.current_hp = m.max_hp + 3,
              !.exp_to_next = IF 20 >= (m.exp_to_next * 13) \div 10
                              THEN 20 ELSE (m.exp_to_next * 13) \div 10]

\* One iteration of the while loop of gain_experience
LevelUp(m) ==
    [m EXCEPT !.exp = m.exp - m.exp_to_next,
              !.level = m.level + 1,
              !.max_hp = m.max_hp + 3,
              !.attack = m.attack + 2,
              !.defense = m.defense + 2,
              !.speed = m.speed + 1,
              !.current_hp = m.max_hp + 3,
              !.exp_to_next = Max(20, GrowThreshold(m.exp_to_next))]

\* mutant: an if in place of the while, at most one level per call
GainOnce(m, levels) ==
    IF m.exp >= m.exp_to_next
    THEN <<LevelUp(m), Append(levels, m.level + 1)>>
    ELSE <<m, levels>>

RECURSIVE GainLoop(_, _)
\* <<monster, levels>> after the while loop, started with `levels` messages
GainLoop(m, levels) ==
    IF m.exp >= m.exp_to_next
    THEN GainLoop(LevelUp(m), Append(levels, m.level + 1))
    ELSE <<m, levels>>

\* gain_experience: <<the monster afterwards, the level of each message>>
gain_experience(m, amount) ==
    GainLoop([m EXCEPT !.exp = m.exp + amount], <<>>)

-----------------------------------------------------------------------------
(* Resolvers *)

\* random.random() in hundredths: a draw of [0, 1)
Rolls == {0, 50, 99}

\* random.random() <= move.accuracy
accuracy_check(move, roll) == roll <= move.accuracy

\* random.uniform(0.85, 1.0), in hundredths; both ends can be drawn.  Steps of
\* 0.03 reach every integer int(base * variance) can take while base < 33.
Variances == {85, 88, 91, 94, 97, 100}

\* mutant: the defense is not subtracted
DamageBaseNoDefense(attacker, defender, move) ==
    IF move.power + attacker.attack >= 1 THEN move.power + attacker.attack ELSE 1

DamageBase(attacker, defender, move) ==
    Max(move.power + attacker.attack - (defender.defense \div 2), 1)

\* mutant: the product is rounded half up
TruncateRounds(base, variance) == (base * variance + 50) \div 100

\* int(base * variance): truncation
Truncate(base, variance) == (base * variance) \div 100

calculate_damage(attacker, defender, move, variance) ==
    Max(1, Truncate(DamageBase(attacker, defender, move), variance))

calculate_exp_gain(defeated) == 10 + defeated.level * 5


-----------------------------------------------------------------------------
(* BattleState *)

\* A queued closure: the nested function and the values it captured
Callback(kind, attacker, exp_gain) ==
    [kind |-> kind, attacker |-> attacker, exp_gain |-> exp_gain]

set_ended == Callback("set_ended", 0, 0)   \* lambda: setattr(battle, "ended", True)

\* The f-string of a message: its wording, the names it mentions (a tuple),
\* its number
Text(wording, subject, amount) ==
    [wording |-> wording, subject |-> subject, amount |-> amount]

\* mutant: only the empty party is refused
InvalidPartyEmptyOnly(party) == party = <<>>

\* BattleState.__init__ raises ValueError for these parties
InvalidParty(party) ==
    \/ party = <<>>
    \/ \A i \in Indices(party) : is_fainted(At(party, i))

\* mutant: the lead is always the first member
preferred_lead_first(party) == 0

preferred_lead(party) ==
    IF is_fainted(At(party, 0))
    THEN LET alive == {idx \in Indices(party) :
                          ~is_fainted(At(party, idx))}
         IN IF alive = {} THEN 0 ELSE MinOf(alive)
    ELSE 0

\* mutant: every battle offers Catch
ActionOptionsWithCatch(trainer) == <<"Fight", "Switch", "Catch", "Run">>

ActionOptions(trainer) ==
    IF trainer # None
    THEN <<"Fight", "Switch", "Run">>
    ELSE <<"Fight", "Switch", "Catch", "Run">>

BattleState(party, enemy_monster, max_party_size, trainer, enemy_party) ==
    [player_party |-> party,
     trainer_info |-> trainer,
     enemy_party |-> IF enemy_party # <<>> THEN enemy_party ELSE <<enemy_monster>>,
     enemy_active_index |-> 0,
     max_party_size |-> max_party_size,
     active_index |-> preferred_lead(party),
     switch_index |-> preferred_lead(party),
     force_switch |-> FALSE,
     menu_state |-> "action",
     action_index |-> 0,
     move_index |-> 0,
     message_queue |-> <<>>,
     pending_enemy_turn |-> FALSE,
     after_battle_callback |-> None,
     ended |-> FALSE,
     action_options |-> ActionOptions(trainer),
     captured_monster |-> None,
     captured_to_storage |-> FALSE,
     trainer_defeated |-> FALSE,
     badge_earned |-> None,
     calls |-> <<>>]   \* the functions the current handler call has entered

\* battle.player_monster and battle.enemy_monster alias the active list entries
player_monster(b) == At(b.player_party, b.active_index)

enemy_monster(b) == At(b.enemy_party, b.enemy_active_index)

party_size(b) == Len(b.player_party)

Called(b, name) == [b EXCEPT !.calls = Append(@, name)]

\* mutant: fainted monsters count as targets
available_switch_targets_any(b) ==
    {idx \in Indices(b.player_party) : idx # b.active_index}

available_switch_targets(b) ==
    {idx \in Indices(b.player_party) :
        idx # b.active_index /\ ~is_fainted(At(b.player_party, idx))}

set_active_monster(b, index) ==
    [b EXCEPT !.active_index = index, !.switch_index = index]

set_enemy_monster(b, index) == [b EXCEPT !.enemy_active_index = index]

\* mutant: no later member is ever found
next_enemy_index_none(b) == None

next_enemy_index(b) ==
    LET later == {idx \in Indices(b.enemy_party) :
                     idx > b.enemy_active_index /\ ~is_fainted(At(b.enemy_party, idx))}
    IN IF later = {} THEN None ELSE Some(MinOf(later))

\* mutant: the first benched monster, fainted or not
first_available_switch_any(b) ==
    IF {idx \in Indices(b.player_party) : idx # b.active_index} = {}
    THEN None
    ELSE Some(MinOf({idx \in Indices(b.player_party) : idx # b.active_index}))

first_available_switch(b) ==
    IF available_switch_targets(b) = {}
    THEN None
    ELSE Some(MinOf(available_switch_targets(b)))

\* mutant: list.insert(0, ...) in place of list.append
EnqueueFront(queue, message) == <<message>> \o queue

\* list.append
Enqueue(queue, message) == Append(queue, message)

queue_message(b, text, callback) ==
    [b EXCEPT !.message_queue = Enqueue(@, [text |-> text, callback |-> callback])]

\* mutant: list.pop() in place of list.pop(0)
PopPositionLast(queue) == Len(queue)

\* the position list.pop(0) removes
PopPosition(queue) == 1

\* pop_message: the message returned (None on an empty queue) and the battle left
pop_message(b) ==
    IF b.message_queue # <<>>
    THEN LET k == PopPosition(b.message_queue)
         IN [message |-> Some(b.message_queue[k]),
             battle |-> [b EXCEPT !.message_queue =
                            SubSeq(@, 1, k - 1) \o SubSeq(@, k + 1, Len(@))]]
    ELSE [message |-> None, battle |-> b]

enemy_label(b, monster) ==
    IF b.trainer_info # None
    THEN <<Value(b.trainer_info).name, monster.name>>
    ELSE <<"Wild", monster.name>>

-----------------------------------------------------------------------------
(* Battle flow control.  Each operator maps the battle before to the battle *)
(* after; rnd holds the random draws of the handler call:                   *)
(* rnd.roll (random.random()), rnd.variance (random.uniform) and            *)
(* rnd.choice (random.choice).                                              *)

\* random.choice(seq)
Choice(seq, r) == At(seq, r % Len(seq))

TrainerName(b) == Value(b.trainer_info).name

\* mutant: the gym-leader test is missing
AwardsBadgeToAnyTrainer(trainer) ==
    trainer.badge_name # None /\ trainer.badge_name # Some("")

\* the condition under which handle_trainer_follow_up awards the badge
AwardsBadge(trainer) ==
    trainer.is_gym_leader /\ trainer.badge_name # None /\ trainer.badge_name # Some("")

\* mutant: the end of the battle is never scheduled
finish_battle_unscheduled(b) == Called(b, "finish_battle")

\* finish_battle, nested in handle_trainer_follow_up
finish_battle(b) ==
    [Called(b, "finish_battle") EXCEPT !.after_battle_callback = Some(set_ended)]

\* the for loop over dialogue_after: the last line carries finish_battle
QueueDialogueAfter(b, lines) ==
    [b EXCEPT !.message_queue = @ \o
        [idx \in 1 .. Len(lines) |->
            [text |-> Text("dialogue_after", <<TrainerName(b), lines[idx]>>, 0),
             callback |-> IF idx = Len(lines)
                          THEN Some(Callback("finish_battle", 0, 0))
                          ELSE None]]]

\* mutant: the team counts as beaten with its first faint
TeamBeatenAlways(next_index) == TRUE

\* the team is beaten when the search for a next member finds none
TeamBeaten(next_index) == next_index = None

handle_trainer_follow_up(b0) ==
    LET b == Called(b0, "handle_trainer_follow_up") IN
    IF b.trainer_info = None
    THEN [b EXCEPT !.after_battle_callback = Some(set_ended)]
    ELSE LET trainer == Value(b.trainer_info)
             next_index == next_enemy_index(b)
         IN IF TeamBeaten(next_index)
            THEN LET b1 == [b EXCEPT !.trainer_defeated = TRUE,
                                     !.badge_earned = IF AwardsBadge(trainer)
                                                      THEN trainer.badge_name
                                                      ELSE @]
                 IN IF trainer.dialogue_after # <<>>
                    THEN QueueDialogueAfter(b1, trainer.dialogue_after)
                    ELSE finish_battle(b1)
            ELSE LET b1 == set_enemy_monster(b, Value(next_index))
                 IN queue_message(b1,
                        Text("sent out", <<trainer.name, enemy_monster(b1).name>>, 0),
                        None)

\* award_exp, nested in execute_player_turn; attacker and exp_gain are captured
award_exp(b0, attacker, exp_gain) ==
    LET b == Called(b0, "award_exp")
        gained == gain_experience(At(b.player_party, attacker), exp_gain)
        b1 == [b EXCEPT !.player_party = SetAt(@, attacker, gained[1]),
                        !.message_queue = @ \o
                            [i \in 1 .. Len(gained[2]) |->
                                [text |-> Text("grew to level", <<gained[1].name>>,
                                               gained[2][i]),
                                 callback |-> None]]]
    IN handle_trainer_follow_up(b1)

\* mutant: the subtraction without the floor at 0
TakeDamageUnclamped(defender, damage) ==
    [defender EXCEPT !.current_hp = defender.current_hp - damage]

\* defender.current_hp = max(0, defender.current_hp - damage)
TakeDamage(defender, damage) ==
    [defender EXCEPT !.current_hp = Max(0, defender.current_hp - damage)]

\* mutant: the enemy retaliates even when the move made it faint
EnemyTurnAfterMoveAlways(defender_fainted) == TRUE

\* mutant: no move is answered
EnemyTurnAfterMoveNever(defender_fainted) == FALSE

\* lines 1330 and 1335: pending_enemy_turn after a move that hit
EnemyTurnAfterMove(defender_fainted) == ~defender_fainted

execute_player_turn(b0, move, rnd) ==
    LET b == Called(b0, "execute_player_turn")
        attacker == player_monster(b)
        defender == enemy_monster(b)
        missed == [queue_message(b, Text("missed", <<attacker.name, move.name>>, 0), None)
                      EXCEPT !.pending_enemy_turn = TRUE,
                             !.menu_state = "action",
                             !.action_index = 0]
    IN
    IF ~accuracy_check(move, rnd.roll)
    THEN missed
    ELSE LET damage == calculate_damage(attacker, defender, move, rnd.variance)
             hurt == TakeDamage(defender, damage)
             b1 == [b EXCEPT !.enemy_party = SetAt(@, b.enemy_active_index, hurt)]
             b2 == queue_message(b1, Text("used", <<attacker.name, move.name>>, 0), None)
             b3 == queue_message(b2, Text("It dealt damage", <<>>, damage), None)
         IN IF is_fainted(hurt)
            THEN LET exp_gain == calculate_exp_gain(hurt)
                     b4 == queue_message(b3,
                               Text("fainted", enemy_label(b3, hurt), 0), None)
                     b5 == queue_message(b4,
                               Text("gained EXP", <<attacker.name>>, exp_gain),
                               Some(Callback("award_exp", b.active_index, exp_gain)))
                 IN [b5 EXCEPT !.pending_enemy_turn = EnemyTurnAfterMove(TRUE),
                               !.menu_state = "action",
                               !.action_index = 0]
            ELSE [b3 EXCEPT !.pending_enemy_turn = EnemyTurnAfterMove(FALSE),
                            !.menu_state = "action",
                            !.action_index = 0]

\* mutant: the faint closure never forces the switch
handle_faint_no_force(b0) ==
    LET b == Called(b0, "handle_faint")
    IN IF first_available_switch(b) # None
       THEN b
       ELSE [b EXCEPT !.after_battle_callback = Some(set_ended)]

\* handle_faint, nested in execute_enemy_turn
handle_faint(b0) ==
    LET b == Called(b0, "handle_faint")
        next_option == first_available_switch(b)
    IN IF next_option # None
       THEN [b EXCEPT !.force_switch = TRUE,
                      !.menu_state = "switch",
                      !.switch_index = Value(next_option)]
       ELSE [b EXCEPT !.after_battle_callback = Some(set_ended)]

execute_enemy_turn(b0, rnd) ==
    LET b == Called(b0, "execute_enemy_turn")
        attacker == enemy_monster(b)
        defender == player_monster(b)
        move == Choice(attacker.moves, rnd.choice)
    IN
    IF ~accuracy_check(move, rnd.roll)
    THEN queue_message(b,
             Text("missed", enemy_label(b, attacker) \o <<move.name>>, 0), None)
    ELSE LET damage == calculate_damage(attacker, defender, move, rnd.variance)
             hurt == TakeDamage(defender, damage)
             b1 == [b EXCEPT !.player_party = SetAt(@, b.active_index, hurt)]
             b2 == queue_message(b1,
                       Text("used", enemy_label(b, attacker) \o <<move.name>>, 0), None)
             b3 == queue_message(b2, Text("It dealt damage", <<>>, damage), None)
         IN IF is_fainted(hurt)
            THEN queue_message(b3, Text("fainted", <<hurt.name>>, 0),
                               Some(Callback("handle_faint", 0, 0)))
            ELSE b3

\* mutant: the chance grows with the HP the enemy has left
CatchNumeratorRising(enemy) == 3 * enemy.max_hp + 5 * enemy.current_hp

\* catch_chance = 0.3 + (1.0 - current_hp / max_hp) * 0.5 as the fraction
\* CatchNumerator / CatchDenominator, for max_hp # 0
CatchNumerator(enemy) == 3 * enemy.max_hp + 5 * (enemy.max_hp - enemy.current_hp)

CatchDenominator(enemy) == 10 * enemy.max_hp

\* catch_chance in hundredths, rounded down: hp_ratio is 1.0 when max_hp is 0
catch_chance(enemy) ==
    IF enemy.max_hp # 0
    THEN (100 * CatchNumerator(enemy)) \div CatchDenominator(enemy)
    ELSE 30

\* mutant: a monster bound for storage is not recorded as captured
finish_capture_unrecorded(b0, enemy) ==
    LET b == Called(b0, "finish_capture") IN
    IF party_size(b) >= b.max_party_size
    THEN [queue_message([b EXCEPT !.captured_to_storage = TRUE],
              Text("will be sent to storage", <<At(b.enemy_party, enemy).name>>, 0), None)
             EXCEPT !.after_battle_callback = Some(set_ended)]
    ELSE [b EXCEPT !.captured_monster = Some(clone_monster(At(b.enemy_party, enemy))),
                   !.after_battle_callback = Some(set_ended)]

\* finish_capture, nested in attempt_capture; enemy is captured by the closure
finish_capture(b0, enemy) ==
    LET b == Called(b0, "finish_capture")
        b1 == [b EXCEPT !.captured_monster = Some(clone_monster(At(b.enemy_party, enemy))),
                        !.captured_to_storage = party_size(b) >= b.max_party_size]
        b2 == IF b1.captured_to_storage
              THEN queue_message(b1,
                       Text("will be sent to storage", <<At(b.enemy_party, enemy).name>>, 0),
                       None)
              ELSE b1
    IN [b2 EXCEPT !.after_battle_callback = Some(set_ended)]

attempt_capture(b0, rnd) ==
    LET b == Called(b0, "attempt_capture") IN
    IF b.trainer_info # None
    THEN [queue_message(b, Text("You can't capture a trainer's partner!", <<>>, 0), None)
             EXCEPT !.pending_enemy_turn = TRUE,
                    !.menu_state = "action",
                    !.action_index = 0]
    ELSE LET b1 == queue_message(b, Text("You threw a capture charm!", <<>>, 0), None)
             enemy == enemy_monster(b1)
             b2 == IF rnd.roll <= catch_chance(enemy)
                   THEN [queue_message(b1, Text("You caught", <<enemy.name>>, 0),
                             Some(Callback("finish_capture", b1.enemy_active_index, 0)))
                            EXCEPT !.pending_enemy_turn = FALSE]
                   ELSE [queue_message(b1, Text("broke free", <<enemy.name>>, 0), None)
                            EXCEPT !.pending_enemy_turn = TRUE]
         IN [b2 EXCEPT !.menu_state = "action", !.action_index = 0]

\* mutant: a successful escape also leaves an enemy turn pending
attempt_escape_turn_always(b0, rnd) ==
    LET b == Called(b0, "attempt_escape") IN
    [queue_message(b,
         IF rnd.roll < 50
         THEN Text("Got away safely!", <<>>, 0)
         ELSE Text("Couldn't escape!", <<>>, 0),
         IF rnd.roll < 50 THEN Some(set_ended) ELSE None)
        EXCEPT !.pending_enemy_turn = TRUE]

\* mutant: a trainer blocks no escape
attempt_escape_from_trainer(b0, rnd) ==
    LET b == Called(b0, "attempt_escape") IN
    IF rnd.roll < 50
    THEN queue_message(b, Text("Got away safely!", <<>>, 0), Some(set_ended))
    ELSE [queue_message(b, Text("Couldn't escape!", <<>>, 0), None)
             EXCEPT !.pending_enemy_turn = TRUE]

attempt_escape(b0, rnd) ==
    LET b == Called(b0, "attempt_escape") IN
    IF b.trainer_info # None
    THEN [queue_message(b, Text("The trainer blocks your escape!", <<>>, 0), None)
             EXCEPT !.pending_enemy_turn = TRUE]
    ELSE IF rnd.roll < 50
         THEN queue_message(b, Text("Got away safely!", <<>>, 0), Some(set_ended))
         ELSE [queue_message(b, Text("Couldn't escape!", <<>>, 0), None)
                  EXCEPT !.pending_enemy_turn = TRUE]

\* mutant: the switch is not announced
perform_player_switch_silent(b0, new_index, costs_turn) ==
    [set_active_monster(Called(b0, "perform_player_switch"), new_index)
        EXCEPT !.force_switch = FALSE,
               !.menu_state = "action",
               !.action_index = 0,
               !.move_index = 0,
               !.pending_enemy_turn = costs_turn]

perform_player_switch(b0, new_index, costs_turn) ==
    LET b == set_active_monster(Called(b0, "perform_player_switch"), new_index)
        b1 == [b EXCEPT !.force_switch = FALSE,
                        !.menu_state = "action",
                        !.action_index = 0,
                        !.move_index = 0,
                        !.pending_enemy_turn = costs_turn]
    IN queue_message(b1, Text("Go", <<player_monster(b1).name>>, 0), None)

-----------------------------------------------------------------------------
(* handle_battle_input *)

AdvanceKeys == {"K_SPACE", "K_RETURN", "K_z"}

Keys == {"K_UP", "K_DOWN", "K_ESCAPE", "K_x"} \cup AdvanceKeys

\* the pygame events a battle can be handed
Events ==
    {[type |-> "KEYDOWN", key |-> k] : k \in Keys}
        \cup {[type |-> "KEYUP", key |-> "K_RETURN"]}

\* the random draws one handler call can consume; random.choice draws an
\* index of the enemy's move list
Draws(b) ==
    [roll : Rolls, variance : Variances, choice : Indices(enemy_monster(b).moves)]

NoDraw == [roll |-> 0, variance |-> 100, choice |-> 0]

IsAdvance(ev) == ev.type = "KEYDOWN" /\ ev.key \in AdvanceKeys

\* the call of a closure taken from the queue or from after_battle_callback
Invoke(b, callback) ==
    CASE callback.kind = "award_exp" ->
            award_exp(b, callback.attacker, callback.exp_gain)
      [] callback.kind = "handle_faint" -> handle_faint(b)
      [] callback.kind = "finish_capture" -> finish_capture(b, callback.attacker)
      [] callback.kind = "finish_battle" -> finish_battle(b)
      [] callback.kind = "set_ended" -> [Called(b, "set_ended") EXCEPT !.ended = TRUE]

\* `if message and message["callback"]: message["callback"]()`
RunMessageCallback(b, message) ==
    IF message # None /\ Value(message).callback # None
    THEN Invoke(b, Value(Value(message).callback))
    ELSE b

\* mutant: the queue blocks input only while more than one message waits
QueueBlocksInputOffByOne(b) == Len(b.message_queue) > 1

\* `if battle.message_queue:` -- the handler only advances messages
QueueBlocksInput(b) == b.message_queue # <<>>

\* mutant: the flag is not cleared before the enemy turn
AdvanceMessageKeepsPending(b0, rnd) ==
    LET popped == pop_message(Called(b0, "pop_message"))
        b == RunMessageCallback(popped.battle, popped.message)
    IN IF b.message_queue = <<>> /\ b.pending_enemy_turn
       THEN execute_enemy_turn(b, rnd)
       ELSE IF b.message_queue = <<>> /\ b.after_battle_callback # None
            THEN Invoke([b EXCEPT !.after_battle_callback = None],
                        Value(b.after_battle_callback))
            ELSE b

\* lines 1186-1197: the branch taken on an advance key while messages are queued
AdvanceMessage(b0, rnd) ==
    LET popped == pop_message(Called(b0, "pop_message"))
        b == RunMessageCallback(popped.battle, popped.message)
    IN IF b.message_queue = <<>> /\ b.pending_enemy_turn
       THEN execute_enemy_turn([b EXCEPT !.pending_enemy_turn = FALSE], rnd)
       ELSE IF b.message_queue = <<>> /\ b.after_battle_callback # None
            THEN Invoke([b EXCEPT !.after_battle_callback = None],
                        Value(b.after_battle_callback))
            ELSE b

\* lines 1215-1237: menu_state == "action"
ActionMenu(b, ev, rnd) ==
    IF ev.key \in {"K_UP", "K_DOWN"}
    THEN [b EXCEPT !.action_index =
             (@ + (IF ev.key = "K_DOWN" THEN 1 ELSE -1)) % Len(b.action_options)]
    ELSE IF ev.key \in AdvanceKeys
    THEN LET selected_option == At(b.action_options, b.action_index) IN
         IF selected_option = "Fight"
         THEN [b EXCEPT !.menu_state = "move", !.move_index = 0]
         ELSE IF selected_option = "Switch"
         THEN LET targets == available_switch_targets(b) IN
              IF targets = {}
              THEN queue_message(b, Text("No other monsters can fight!", <<>>, 0), None)
              ELSE [b EXCEPT !.switch_index = IF @ \notin targets THEN MinOf(targets) ELSE @,
                             !.menu_state = "switch"]
         ELSE IF selected_option = "Catch"
         THEN attempt_capture(b, rnd)
         ELSE attempt_escape(b, rnd)
    ELSE b

\* lines 1238-1248: menu_state == "move"
MoveMenu(b, ev, rnd) ==
    LET moves_len == Len(player_monster(b).moves) IN
    IF ev.key = "K_UP"
    THEN [b EXCEPT !.move_index = (@ - 1) % moves_len]
    ELSE IF ev.key = "K_DOWN"
    THEN [b EXCEPT !.move_index = (@ + 1) % moves_len]
    ELSE IF ev.key = "K_ESCAPE"
    THEN [b EXCEPT !.menu_state = "action"]
    ELSE IF ev.key \in AdvanceKeys
    THEN execute_player_turn(b, At(player_monster(b).moves, b.move_index), rnd)
    ELSE b

\* mutant: Escape leaves the switch menu whatever force_switch says
MayLeaveSwitchAlways(b) == TRUE

\* `if not battle.force_switch:` -- Escape may leave the switch menu
MayLeaveSwitch(b) == ~b.force_switch

\* mutant: the fainted check is missing
SwitchRejectionActiveOnly(b) ==
    IF b.switch_index = b.active_index
    THEN Some(Text("That monster is already in battle!", <<>>, 0))
    ELSE None

\* the two rejections of a confirmed switch target, None when it is accepted
SwitchRejection(b) ==
    IF b.switch_index = b.active_index
    THEN Some(Text("That monster is already in battle!", <<>>, 0))
    ELSE IF is_fainted(At(b.player_party, b.switch_index))
    THEN Some(Text("can't fight!", <<At(b.player_party, b.switch_index).name>>, 0))
    ELSE None

\* mutant: every switch costs the turn
CostsTurnAlways(b) == TRUE

\* costs_turn=not battle.force_switch
CostsTurn(b) == ~b.force_switch

\* lines 1249-1268: menu_state == "switch"
SwitchMenu(b, ev) ==
    LET party_len == party_size(b) IN
    IF party_len = 0
    THEN b
    ELSE IF ev.key = "K_UP"
    THEN [b EXCEPT !.switch_index = (@ - 1) % party_len]
    ELSE IF ev.key = "K_DOWN"
    THEN [b EXCEPT !.switch_index = (@ + 1) % party_len]
    ELSE IF ev.key = "K_ESCAPE"
    THEN IF MayLeaveSwitch(b) THEN [b EXCEPT !.menu_state = "action"] ELSE b
    ELSE IF ev.key \in AdvanceKeys
    THEN IF SwitchRejection(b) # None
         THEN queue_message(b, Value(SwitchRejection(b)), None)
         ELSE perform_player_switch(b, b.switch_index, CostsTurn(b))
    ELSE b

\* lines 1215, 1238, 1249: dispatch on menu_state
MenuInput(b, ev, rnd) ==
    IF b.menu_state = "action" THEN ActionMenu(b, ev, rnd)
    ELSE IF b.menu_state = "move" THEN MoveMenu(b, ev, rnd)
    ELSE IF b.menu_state = "switch" THEN SwitchMenu(b, ev)
    ELSE b

\* lines 1203-1213: a forced switch reopens the switch menu before the dispatch
ForcedSwitchInput(b, ev, rnd) ==
    IF available_switch_targets(b) = {}
    THEN [queue_message([b EXCEPT !.force_switch = FALSE],
                        Text("All of your monsters have fainted!", <<>>, 0), None)
             EXCEPT !.after_battle_callback = Some(set_ended)]
    ELSE IF b.menu_state # "switch"
    THEN LET first_option == first_available_switch(b) IN
         MenuInput([b EXCEPT !.switch_index = IF first_option # None
                                              THEN Value(first_option) ELSE @,
                             !.menu_state = "switch"], ev, rnd)
    ELSE MenuInput(b, ev, rnd)

handle_battle_input(ev, battle0, rnd) ==
    LET b == [battle0 EXCEPT !.calls = <<>>] IN
    IF QueueBlocksInput(b)
    THEN IF IsAdvance(ev) THEN AdvanceMessage(b, rnd) ELSE b
    ELSE IF ev.type # "KEYDOWN"
    THEN b
    ELSE IF b.force_switch
    THEN ForcedSwitchInput(b, ev, rnd)
    ELSE MenuInput(b, ev, rnd)

-----------------------------------------------------------------------------
(* Starting a battle *)

\* the party main hands to a battle: starters in order, the odd ones close
\* to a level-up
PartyMember(i, fainted) ==
    [create_monster_templates(starter_names[((i - 1) % Len(starter_names)) + 1])
        EXCEPT !.current_hp = IF fainted THEN 0 ELSE @,
               !.exp = IF i % 2 = 1 THEN 10 ELSE 0]

\* parties of 1..MaxPartyLen monsters, all healthy or with a fainted lead
Parties ==
    {[i \in 1 .. n |-> PartyMember(i, FALSE)] : n \in 1 .. MaxPartyLen}
        \cup {[i \in 1 .. n |-> PartyMember(i, i = 1)] : n \in 2 .. MaxPartyLen}

\* species met in the grass
WildNames == {"Dripfin"}

DialogueLines(n) == [i \in 1 .. n |-> <<"line", i>>]

TeamNames(n) == [i \in 1 .. n |-> starter_names[(i % Len(starter_names)) + 1]]

Trainer(id, is_gym_leader, badge_name, lines, size) ==
    [id |-> id, name |-> id,
     is_gym_leader |-> is_gym_leader,
     badge_name |-> badge_name,
     dialogue_before |-> <<"hello">>,
     dialogue_after |-> lines,
     team |-> TeamNames(size)]

\* load_trainers: records assets/trainers.json can hold for the two trainer
\* tiles of the map
Trainers ==
    {Trainer("grove_gym_leader", TRUE, Some("Grove Badge"),
             DialogueLines(MaxDialogue), MaxTeamLen),
     Trainer("grove_gym_leader", TRUE, None, <<>>, 1),
     Trainer("forest_bug_catcher_1", FALSE, Some("Bug Badge"), DialogueLines(1), 1),
     Trainer("forest_bug_catcher_1", FALSE, None, <<>>, MaxTeamLen)}

\* start_battle: a clone of a random wild template against the party
start_battle(party, wild_name, max_party_size) ==
    BattleState(party, clone_monster(create_monster_templates(wild_name)),
                max_party_size, None, <<>>)

\* monster_templates.get(monster_name) finds a template
IsTemplate(monster_name) == \E i \in DOMAIN starter_names : starter_names[i] = monster_name

\* the team members start_trainer_battle finds a template for
KnownTeam(trainer) == SelectSeq(trainer.team, IsTemplate)

\* start_trainer_battle, from the BattleState construction on (lines 830-843),
\* for a trainer with a member in KnownTeam
start_trainer_battle(trainer, party, max_party_size) ==
    LET enemy_party == [i \in 1 .. Len(KnownTeam(trainer)) |->
                           clone_monster(create_monster_templates(KnownTeam(trainer)[i]))]
        b == BattleState(party, enemy_party[1], max_party_size,
                         Some(trainer), enemy_party)
        b1 == [b EXCEPT !.message_queue = @ \o
                  [i \in 1 .. Len(trainer.dialogue_before) |->
                      [text |-> Text("dialogue_before",
                                     <<trainer.name, trainer.dialogue_before[i]>>, 0),
                       callback |-> None]]]
    IN queue_message(b1, Text("sent out", <<trainer.name, enemy_monster(b1).name>>, 0),
                     None)

\* what a call of start_battle or start_trainer_battle comes to
Returned(b) == [kind |-> "BattleState", battle |-> b]

ReturnedNone == [kind |-> "None"]

Raised(error) == [kind |-> error]

\* start_battle as a whole: random.choice raises IndexError on an empty list,
\* BattleState raises ValueError for an invalid party
StartBattleCall(party, wild_monsters, max_party_size) ==
    IF wild_monsters = <<>>
    THEN {Raised("IndexError")}
    ELSE IF InvalidParty(party)
         THEN {Raised("ValueError")}
         ELSE {Returned(start_battle(party, wild_monsters[i], max_party_size)) :
                  i \in DOMAIN wild_monsters}

\* start_trainer_battle as a whole: None for an unknown trainer and for a team
\* without a known member, before the party is looked at
StartTrainerBattleCall(trainer_id, trainers, party, max_party_size) ==
    IF trainer_id \notin DOMAIN trainers
    THEN ReturnedNone
    ELSE IF KnownTeam(trainers[trainer_id]) = <<>>
         THEN ReturnedNone
         ELSE IF InvalidParty(party)
              THEN Raised("ValueError")
              ELSE Returned(start_trainer_battle(trainers[trainer_id], party,
                                                 max_party_size))

-----------------------------------------------------------------------------
(* The specification: one battle from its construction to its discard *)

\* the party menu as main leaves it before its loop (lines 1457-1460)
MenuAtStart ==
    /\ party_selection = 0
    /\ storage_selection = 0
    /\ party_menu_view = "party"
    /\ party_reorder_source = None

\* the first battle of a game without storage, badges or beaten trainers:
\* BattleState keeps the party list of main, not a copy of it
FirstBattle(b) ==
    /\ battle = b
    /\ player_party = b.player_party
    /\ game_mode = "battle"
    /\ player_storage = <<>>
    /\ MenuAtStart
    /\ earned_badges = {}
    /\ defeated_trainers_set = {}
    /\ encounters = 1
    /\ late_events = 0

Init ==
    \E party \in Parties :
       /\ ~InvalidParty(party)
       /\ \/ \E wild_name \in WildNames :
                FirstBattle(start_battle(party, wild_name, MAX_PARTY_SIZE))
          \/ \E trainer \in Trainers :
                FirstBattle(start_trainer_battle(trainer, party, MAX_PARTY_SIZE))

\* Only the branches behind an advance key reach a random call
DrawsFor(ev, b) == IF IsAdvance(ev) THEN Draws(b) ELSE {NoDraw}

\* main, lines 1502 and 1577: every event of a frame is dispatched to the battle,
\* `ended` is looked at only when the frame is drawn.  At most MaxLateEvents
\* events are followed after the battle has ended.
HandleBattleInput ==
    /\ game_mode = "battle"
    /\ battle.ended => late_events < MaxLateEvents
    /\ \E ev \in Events :
          battle' \in {handle_battle_input(ev, battle, rnd) : rnd \in DrawsFor(ev, battle)}
    /\ player_party' = battle'.player_party
    /\ late_events' = IF battle.ended THEN late_events + 1 ELSE late_events
    /\ UNCHANGED <<game_mode, player_storage, menu_vars, progress_vars, encounters>>

\* mutant: nobody is revived
RevivedNever(party) == party

\* end_battle, lines 1466-1470: a party that has wholly fainted is revived
Revived(party) ==
    IF \A i \in DOMAIN party : is_fainted(party[i])
    THEN [i \in DOMAIN party |-> heal(party[i])]
    ELSE party

\* mutant: a captured monster always joins the party
CaptureJoinsPartyAlways(b, party) == b.captured_monster # None

\* end_battle, lines 1472-1483: where a captured monster goes
CaptureJoinsParty(b, party) ==
    /\ b.captured_monster # None
    /\ ~b.captured_to_storage
    /\ Len(party) < MAX_PARTY_SIZE

\* main, lines 1652-1655 and end_battle: when the frame is drawn an ended battle
\* with an empty queue and no pending enemy turn is discarded
EndBattle ==
    /\ game_mode = "battle"
    /\ battle.ended /\ battle.message_queue = <<>> /\ ~battle.pending_enemy_turn
    /\ LET party == Revived(battle.player_party) IN
       /\ player_party' = IF CaptureJoinsParty(battle, party)
                          THEN Append(party, Value(battle.captured_monster))
                          ELSE party
       /\ player_storage' = IF battle.captured_monster # None
                               /\ ~CaptureJoinsParty(battle, party)
                            THEN Append(player_storage, Value(battle.captured_monster))
                            ELSE player_storage
    /\ IF battle.trainer_defeated /\ battle.trainer_info # None
       THEN /\ defeated_trainers_set' =
                  defeated_trainers_set \cup {Value(battle.trainer_info).id}
            /\ earned_badges' = IF battle.badge_earned # None
                                THEN earned_badges \cup {Value(battle.badge_earned)}
                                ELSE earned_badges
       ELSE UNCHANGED progress_vars
    /\ game_mode' = "overworld"
    /\ battle' = None
    /\ late_events' = 0
    /\ UNCHANGED <<menu_vars, encounters>>

Next == HandleBattleInput \/ EndBattle

Spec == Init /\ [][Next]_vars

\* a party one longer than MaxPartyLen whose second member has fainted: the
\* switch menu then lists a monster that cannot be chosen
BenchParty == [i \in 1 .. MaxPartyLen + 1 |-> PartyMember(i, i = 2)]

InitBench ==
    \/ \E wild_name \in WildNames :
          FirstBattle(start_battle(BenchParty, wild_name, MAX_PARTY_SIZE))
    \/ \E trainer \in Trainers :
          /\ Len(trainer.team) = 1
          /\ FirstBattle(start_trainer_battle(trainer, BenchParty, MAX_PARTY_SIZE))

SpecBench == InitBench /\ [][Next]_vars

-----------------------------------------------------------------------------
(* The overworld and the party menu of main *)

TRAINER_TILES == [T |-> "forest_bug_catcher_1", L |-> "grove_gym_leader"]

\* wild_pool = template_list, by name
wild_pool == <<"Dripfin">>

RemoveAt(list, index) ==
    [i \in 1 .. Len(list) - 1 |-> IF i <= index THEN list[i] ELSE list[i + 1]]

Clamp(selection, length) == Max(0, IF selection < length - 1 THEN selection ELSE length - 1)

\* what main does with the result of a start function: a BattleState becomes
\* the active battle, None leaves the overworld as it is, an exception ends main
Comes(outcome) ==
    IF outcome.kind = "BattleState"
    THEN /\ battle' = outcome.battle
         /\ game_mode' = "battle"
         /\ encounters' = encounters + 1
         /\ late_events' = 0
         /\ UNCHANGED <<player_party, player_storage, menu_vars, progress_vars>>
    ELSE IF outcome.kind = "None"
    THEN UNCHANGED vars
    ELSE /\ game_mode' = "crashed"
         /\ UNCHANGED <<battle, player_party, player_storage, menu_vars, progress_vars,
                        encounters, late_events>>

\* at most MaxEncounters battles are followed; a start that raises is no battle
MayStart == ~InvalidParty(player_party) => encounters < MaxEncounters

\* lines 1568-1575: a step into tall grass that meets a wild monster
WildEncounter ==
    /\ game_mode = "overworld"
    /\ MayStart
    /\ \E outcome \in StartBattleCall(player_party, wild_pool, MAX_PARTY_SIZE) :
          Comes(outcome)

\* mutant: a beaten trainer is challenged again
not_defeated_always(trainer_id, defeated) == TRUE

\* lines 1552-1556: the trainer of the tile has not been beaten
not_defeated(trainer_id, defeated) == trainer_id \notin defeated

\* lines 1551-1567: a step onto the tile of a trainer who is not beaten yet
TrainerEncounter ==
    /\ game_mode = "overworld"
    /\ MayStart
    /\ \E tile \in DOMAIN TRAINER_TILES : \E trainer \in Trainers :
          /\ trainer.id = TRAINER_TILES[tile]
          /\ not_defeated(trainer.id, defeated_trainers_set)
          /\ Comes(StartTrainerBattleCall(trainer.id, [id \in {trainer.id} |-> trainer],
                                          player_party, MAX_PARTY_SIZE))

\* lines 1546-1550: a step onto a healing floor
HealingTile ==
    /\ game_mode = "overworld"
    /\ player_party' = [i \in DOMAIN player_party |-> heal(player_party[i])]
    /\ UNCHANGED <<battle, game_mode, player_storage, menu_vars, progress_vars,
                   encounters, late_events>>

\* lines 1518-1526: K_p or K_TAB in the overworld
OpenPartyMenu ==
    /\ game_mode = "overworld"
    /\ party_selection' = IF player_party # <<>>
                          THEN Clamp(party_selection, Len(player_party))
                          ELSE 0
    /\ game_mode' = "party_menu"
    /\ party_menu_view' = "party"
    /\ party_reorder_source' = None
    /\ UNCHANGED <<battle, player_party, player_storage, storage_selection,
                   progress_vars, encounters, late_events>>

\* lines 1580-1584: K_ESCAPE, K_p or K_TAB in the party menu
ClosePartyMenu ==
    /\ game_mode = "party_menu"
    /\ IF party_reorder_source # None
       THEN party_reorder_source' = None /\ UNCHANGED game_mode
       ELSE game_mode' = "overworld" /\ UNCHANGED party_reorder_source
    /\ UNCHANGED <<battle, player_party, player_storage, party_selection,
                   storage_selection, party_menu_view, progress_vars, encounters,
                   late_events>>

\* lines 1596-1608: K_LEFT / K_RIGHT toggle the view, K_UP / K_DOWN move a cursor
MoveInPartyMenu ==
    /\ game_mode = "party_menu"
    /\ \E key \in {"K_LEFT", "K_UP", "K_DOWN"} :
          LET step == IF key = "K_DOWN" THEN 1 ELSE -1 IN
          /\ party_reorder_source' = IF key = "K_LEFT" THEN None ELSE party_reorder_source
          /\ party_menu_view' = IF key # "K_LEFT" THEN party_menu_view
                                ELSE IF party_menu_view = "party" THEN "storage"
                                ELSE "party"
          /\ party_selection' =
                IF key # "K_LEFT" /\ party_menu_view = "party" /\ player_party # <<>>
                THEN (party_selection + step) % Len(player_party)
                ELSE party_selection
          /\ storage_selection' =
                IF key # "K_LEFT" /\ party_menu_view = "storage" /\ player_storage # <<>>
                THEN (storage_selection + step) % Len(player_storage)
                ELSE storage_selection
    /\ UNCHANGED <<battle, game_mode, player_party, player_storage, progress_vars,
                   encounters, late_events>>

\* lines 1609-1619: K_d sends the selected party monster to storage
Deposit ==
    /\ game_mode = "party_menu"
    /\ party_menu_view = "party" /\ player_party # <<>>
    /\ IF Len(player_party) <= 1
       THEN UNCHANGED <<player_party, player_storage, party_selection,
                        party_reorder_source>>
       ELSE /\ player_party' = RemoveAt(player_party, party_selection)
            /\ player_storage' = Append(player_storage, At(player_party, party_selection))
            /\ party_selection' = Clamp(party_selection, Len(player_party) - 1)
            /\ party_reorder_source' = None
    /\ UNCHANGED <<battle, game_mode, storage_selection, party_menu_view,
                   progress_vars, encounters, late_events>>

\* lines 1620-1632: K_w takes the selected stored monster into the party
Withdraw ==
    /\ game_mode = "party_menu"
    /\ party_menu_view = "storage" /\ player_storage # <<>>
    /\ IF Len(player_party) >= MAX_PARTY_SIZE
       THEN UNCHANGED <<player_party, player_storage, storage_selection>>
       ELSE /\ player_storage' = RemoveAt(player_storage, storage_selection)
            /\ player_party' = Append(player_party, At(player_storage, storage_selection))
            /\ storage_selection' =
                  IF Len(player_storage) > 1
                  THEN Clamp(storage_selection, Len(player_storage) - 1)
                  ELSE 0
    /\ UNCHANGED <<battle, game_mode, party_selection, party_menu_view,
                   party_reorder_source, progress_vars, encounters, late_events>>

\* lines 1633-1643: K_RETURN / K_SPACE mark a monster, then swap it with another
Reorder ==
    /\ game_mode = "party_menu"
    /\ party_menu_view = "party" /\ player_party # <<>>
    /\ IF party_reorder_source = None
       THEN /\ party_reorder_source' = Some(party_selection)
            /\ UNCHANGED player_party
       ELSE /\ player_party' =
                  SetAt(SetAt(player_party, Value(party_reorder_source),
                              At(player_party, party_selection)),
                        party_selection, At(player_party, Value(party_reorder_source)))
            /\ party_reorder_source' = None
    /\ UNCHANGED <<battle, game_mode, player_storage, party_selection,
                   storage_selection, party_menu_view, progress_vars, encounters,
                   late_events>>

\* a game loaded with one of the parties, before any battle
InitGame ==
    /\ player_party \in {party \in Parties : ~InvalidParty(party)}
    /\ battle = None
    /\ game_mode = "overworld"
    /\ player_storage = <<>>
    /\ MenuAtStart
    /\ earned_badges = {}
    /\ defeated_trainers_set = {}
    /\ encounters = 0
    /\ late_events = 0

NextGame ==
    \/ WildEncounter
    \/ TrainerEncounter
    \/ HealingTile
    \/ OpenPartyMenu
    \/ ClosePartyMenu
    \/ MoveInPartyMenu
    \/ Deposit
    \/ Withdraw
    \/ Reorder
    \/ HandleBattleInput
    \/ EndBattle

SpecGame == InitGame /\ [][NextGame]_vars

\* a game in its first wild battle with the party one short of capacity or at
\* capacity: one monster stands, the others have fainted
RosterParty(size) ==
    [i \in 1 .. size |-> IF i = 1 THEN PartyMember(1, FALSE) ELSE PartyMember(2, TRUE)]

InitRoster ==
    \E size \in {MAX_PARTY_SIZE - 1, MAX_PARTY_SIZE} :
       FirstBattle(start_battle(RosterParty(size), wild_pool[1], MAX_PARTY_SIZE))

SpecRoster == InitRoster /\ [][NextGame]_vars

\* a game with a party of one in its first battle, against a trainer; the
\* battle that main starts after it is followed too
InitRematch ==
    \E party \in {<<PartyMember(1, FALSE)>>} : \E trainer \in Trainers :
       /\ battle = start_trainer_battle(trainer, party, MAX_PARTY_SIZE)
       /\ player_party = party
       /\ game_mode = "battle"
       /\ player_storage = <<>>
       /\ MenuAtStart
       /\ earned_badges = {}
       /\ defeated_trainers_set = {}
       /\ encounters = 0
       /\ late_events = 0

SpecRematch == InitRematch /\ [][NextGame]_vars

\* the start functions called with any arguments: parties of 0..MaxPartyLen
\* monsters with any HP, an empty wild list, unknown trainers, unknown teams
StartParties ==
    UNION {{[i \in 1 .. n |-> [PartyMember(i, FALSE) EXCEPT !.current_hp = hp[i]]] :
               hp \in [1 .. n -> 0 .. PartyMember(1, FALSE).max_hp]} :
           n \in 0 .. MaxPartyLen}

WildLists == {<<>>, <<"Dripfin">>, <<"Dripfin", "Spriglet">>}

\* trainers.json may name a monster that monsters.json does not define
TrainerEntries == Trainers \cup {[trainer EXCEPT !.team = <<"Mossling">>] : trainer \in Trainers}

TrainerIds == {TRAINER_TILES[tile] : tile \in DOMAIN TRAINER_TILES}

\* the dictionaries load_trainers can return
TrainerFiles ==
    UNION {{trainers \in [ids -> TrainerEntries] : \A id \in ids : trainers[id].id = id} :
           ids \in SUBSET TrainerIds}

InitStart ==
    /\ player_party \in StartParties
    /\ battle = None
    /\ game_mode = "overworld"
    /\ player_storage = <<>>
    /\ MenuAtStart
    /\ earned_badges = {}
    /\ defeated_trainers_set = {}
    /\ encounters = 0
    /\ late_events = 0

StartBattle ==
    /\ game_mode = "overworld"
    /\ \E wild_monsters \in WildLists :
          \E outcome \in StartBattleCall(player_party, wild_monsters, MAX_PARTY_SIZE) :
             Comes(outcome)

StartTrainerBattle ==
    /\ game_mode = "overworld"
    /\ \E trainer_id \in TrainerIds : \E trainers \in TrainerFiles :
          Comes(StartTrainerBattleCall(trainer_id, trainers, player_party,
                                       MAX_PARTY_SIZE))

NextStart == StartBattle \/ StartTrainerBattle

SpecStart == InitStart /\ [][NextStart]_vars

\* gain_experience called on any monster with any amount
ExpAmounts == 0 .. MaxExpAmount

\* monsters at level 1: healthy, hurt or fainted, with an ordinary or a late
\* threshold, with experience below it or, unprocessed, beyond it
ExpMonsters ==
    {[PartyMember(1, FALSE) EXCEPT !.current_hp = hp, !.exp = exp,
                                   !.exp_to_next = exp_to_next] :
        hp \in {0, 1, 4}, exp \in {0, 10, 19, 25}, exp_to_next \in {20, 26}}

InitExp ==
    /\ \E m \in ExpMonsters : player_party = <<m>>
    /\ battle = None
    /\ game_mode = "overworld"
    /\ player_storage = <<>>
    /\ MenuAtStart
    /\ earned_badges = {}
    /\ defeated_trainers_set = {}
    /\ encounters = 0
    /\ late_events = 0

GainExperience ==
    /\ player_party[1].level < MaxLevel
    /\ \E amount \in ExpAmounts :
          player_party' = <<gain_experience(player_party[1], amount)[1]>>
    /\ UNCHANGED <<battle, game_mode, player_storage, menu_vars, progress_vars,
                   encounters, late_events>>

SpecExp == InitExp /\ [][GainExperience]_vars

-----------------------------------------------------------------------------
(* calculate_damage on its own: an attacker with one move of the library    *)
(* against a defender, hit after hit                                        *)

\* random.uniform(0.85, 1.0), every hundredth of it
DamageVariances == 85 .. 100

DamageAttacks == {0, 3, 7}

\* a defense of 60 takes power + attack - int(defense * 0.5) below 1
DamageDefenses == {0, 5, 20, 60}

DamageMoves == {create_move_library[n] : n \in {"Nuzzle", "Leaf Gust", "Glacier Spit"}}

InitDamage ==
    /\ \E attack \in DamageAttacks : \E defense \in DamageDefenses :
       \E move \in DamageMoves :
          player_party =
              <<[PartyMember(1, FALSE) EXCEPT !.attack = attack, !.moves = <<move>>],
                [PartyMember(2, FALSE) EXCEPT !.defense = defense,
                                              !.max_hp = MaxDamageHp,
                                              !.current_hp = MaxDamageHp]>>
    /\ battle = None
    /\ game_mode = "overworld"
    /\ player_storage = <<>>
    /\ MenuAtStart
    /\ earned_badges = {}
    /\ defeated_trainers_set = {}
    /\ encounters = 0
    /\ late_events = 0

\* damage = calculate_damage(attacker, defender, move)
\* defender.current_hp = max(0, defender.current_hp - damage)
CalculateDamage ==
    /\ \E variance \in DamageVariances :
          LET attacker == player_party[1]
              defender == player_party[2]
              damage == calculate_damage(attacker, defender, attacker.moves[1], variance)
          IN player_party' =
                 <<attacker, [defender EXCEPT !.current_hp = Max(0, @ - damage)]>>
    /\ UNCHANGED <<battle, game_mode, player_storage, menu_vars, progress_vars,
                   encounters, late_events>>

SpecDamage == InitDamage /\ [][CalculateDamage]_vars

\* a party at capacity, with two monsters that can still fight
FullParty == [i \in 1 .. MAX_PARTY_SIZE |-> PartyMember(i, i > 2)]

\* wild encounters of a party at capacity and of a party of one
InitCapture ==
    \E party \in {FullParty, <<PartyMember(1, FALSE)>>} :
       \E wild_name \in WildNames :
          FirstBattle(start_battle(party, wild_name, MAX_PARTY_SIZE))

SpecCapture == InitCapture /\ [][Next]_vars

\* the battles in which every outcome field can be set: the wild encounters
\* of InitCapture and the trainers against a party of one
InitOutcome ==
    \/ InitCapture
    \/ \E trainer \in Trainers :
          FirstBattle(start_trainer_battle(trainer, <<PartyMember(1, FALSE)>>,
                                           MAX_PARTY_SIZE))

SpecOutcome == InitOutcome /\ [][Next]_vars

-----------------------------------------------------------------------------
(* Vocabulary of the properties *)

InBattle == game_mode = "battle"

\* the battles one call of handle_battle_input can leave, from battle b
OutcomesOf(b, ev) == {handle_battle_input(ev, b, rnd) : rnd \in DrawsFor(ev, b)}

Outcomes(ev) == OutcomesOf(battle, ev)

Has(calls, name) == \E i \in DOMAIN calls : calls[i] = name

Count(calls, name) == Cardinality({i \in DOMAIN calls : calls[i] = name})

IsPrefix(p, q) == Len(p) <= Len(q) /\ SubSeq(q, 1, Len(p)) = p

\* b and r agree on every field of the BattleState object
SameBattle(b, r) == [r EXCEPT !.calls = <<>>] = [b EXCEPT !.calls = <<>>]

IntentCalls ==
    {"execute_player_turn", "perform_player_switch", "attempt_capture", "attempt_escape"}

ClosureCalls == {"award_exp", "handle_faint", "finish_capture", "finish_battle"}

Monsters(b) ==
    {At(b.player_party, i) : i \in Indices(b.player_party)}
        \cup {At(b.enemy_party, i) : i \in Indices(b.enemy_party)}

AdvanceEvents == {ev \in Events : IsAdvance(ev)}

-----------------------------------------------------------------------------
(* C1: in every reachable state of a battle every monster of the player     *)
(* party and of the enemy party has 0 <= current_hp <= max_hp.              *)
C1_HpWithinBounds ==
    InBattle =>
        \A m \in Monsters(battle) : 0 <= m.current_hp /\ m.current_hp <= m.max_hp

\* a party monster that levelled up and was hurt afterwards, beside a fainted enemy
C1_Witness ==
    /\ InBattle
    /\ \E i \in Indices(battle.player_party) :
          LET m == At(battle.player_party, i)
          IN m.level > 1 /\ 0 < m.current_hp /\ m.current_hp < m.max_hp
    /\ \E i \in Indices(battle.enemy_party) : At(battle.enemy_party, i).current_hp = 0

(* C2: while the message queue is non-empty handle_battle_input executes no *)
(* top-level intent: an event that is no advance key changes nothing, and   *)
(* an advance key pops the front message, runs no Fight, Switch, Catch, Run *)
(* or move or switch selection and moves no cursor (the switch menu and its *)
(* cursor change only through the faint closure of the popped message).     *)
C2_QueueBlocksIntents ==
    (InBattle /\ battle.message_queue # <<>>) =>
        \A ev \in Events : \A r \in Outcomes(ev) :
            IF IsAdvance(ev)
            THEN /\ r.calls # <<>>
                 /\ Head(r.calls) = "pop_message"
                 /\ Count(r.calls, "pop_message") = 1
                 /\ IsPrefix(Tail(battle.message_queue), r.message_queue)
                 /\ \A c \in IntentCalls : ~Has(r.calls, c)
                 /\ r.action_index = battle.action_index
                 /\ r.move_index = battle.move_index
                 /\ r.active_index = battle.active_index
                 /\ (r.menu_state # battle.menu_state \/ r.switch_index # battle.switch_index)
                        => Has(r.calls, "handle_faint")
            ELSE r.calls = <<>> /\ SameBattle(battle, r)

\* an advance popped one message and left others queued
C2_Witness ==
    /\ InBattle
    /\ battle.calls = <<"pop_message">>
    /\ Len(battle.message_queue) >= 2
    /\ battle.action_index = 0

(* C3: messages are consumed in the order they were enqueued: an advance    *)
(* removes the oldest unit, the units behind it keep their order, and what  *)
(* a closure or an enemy turn enqueues during the advance goes behind them; *)
(* an intent (empty queue) leaves only what it enqueued.                    *)
C3_FifoOrder ==
    InBattle =>
        \A ev \in AdvanceEvents : \A r \in Outcomes(ev) :
            IF battle.message_queue # <<>>
            THEN /\ Len(r.message_queue) >= Len(battle.message_queue) - 1
                 /\ \A i \in 1 .. (Len(battle.message_queue) - 1) :
                       r.message_queue[i] = battle.message_queue[i + 1]
            ELSE \A i \in 1 .. Len(r.message_queue) :
                    r.message_queue[i].callback # None => i = Len(r.message_queue)

\* the experience closure has run and its level-up message waits in front of
\* the announcement enqueued after it
C3_Witness ==
    /\ InBattle
    /\ Has(battle.calls, "award_exp")
    /\ Len(battle.message_queue) >= 2
    /\ battle.message_queue[1].text.wording = "grew to level"
    /\ battle.message_queue[2].text.wording = "sent out"

(* C4: the closure attached to a queued message is invoked exactly once, in  *)
(* the advance that removes its message from the front of the queue; no     *)
(* closure runs for a message that carries none (only a battle end that an  *)
(* earlier closure scheduled), for an event that is no advance, or while    *)
(* the queue is empty.                                                      *)
C4_CallbackOnceOnAdvance ==
    InBattle =>
        \A ev \in Events : \A r \in Outcomes(ev) :
            IF battle.message_queue # <<>> /\ IsAdvance(ev)
            THEN LET head == Head(battle.message_queue) IN
                 /\ IsPrefix(Tail(battle.message_queue), r.message_queue)
                 /\ IF head.callback # None
                    THEN /\ Len(r.calls) >= 2
                         /\ r.calls[2] = Value(head.callback).kind
                         /\ Count(r.calls, Value(head.callback).kind) = 1
                         /\ \A c \in ClosureCalls \ {"finish_battle"} :
                               c # Value(head.callback).kind => ~Has(r.calls, c)
                    ELSE /\ \A c \in ClosureCalls : ~Has(r.calls, c)
                         /\ Has(r.calls, "set_ended") => battle.after_battle_callback # None
            ELSE \A c \in ClosureCalls \cup {"set_ended"} : ~Has(r.calls, c)

\* the faint closure has just run, popped with its message, and forced the switch
C4_Witness ==
    /\ InBattle
    /\ battle.calls = <<"pop_message", "handle_faint">>
    /\ battle.force_switch
    /\ battle.message_queue = <<>>

(* C5, as claimed: whenever the active player monster is fainted,           *)
(* force_switch is true and no eligible replacement exists.                 *)
C5_AsClaimed ==
    (InBattle /\ is_fainted(player_monster(battle))) =>
        (battle.force_switch /\ available_switch_targets(battle) = {})

(* C5, amended: whenever the active player monster is fainted, either       *)
(* messages are still queued, or force_switch is true, the switch menu is   *)
(* open and an eligible replacement exists, or the battle has ended.        *)
C5_FaintedActive ==
    (InBattle /\ is_fainted(player_monster(battle))) =>
        \/ battle.message_queue # <<>>
        \/ /\ battle.force_switch
           /\ battle.menu_state = "switch"
           /\ available_switch_targets(battle) # {}
        \/ battle.ended

\* the active monster has fainted and the switch is forced with a replacement
C5_Witness ==
    /\ InBattle
    /\ is_fainted(player_monster(battle))
    /\ battle.message_queue = <<>>
    /\ battle.force_switch
    /\ available_switch_targets(battle) # {}
    /\ ~battle.ended

(* C6: once force_switch is true every input is handled in the switch menu: *)
(* no Fight, Catch, Run or move executes, Escape does not return to the     *)
(* action menu, and force_switch becomes false only through a switch to a   *)
(* non-fainted monster other than the active one.                           *)
C6_ForceSwitchSticky ==
    (InBattle /\ battle.force_switch) =>
        /\ battle.menu_state = "switch"
        /\ \A ev \in Events : \A r \in Outcomes(ev) :
              /\ \A c \in {"execute_player_turn", "attempt_capture", "attempt_escape"} :
                    ~Has(r.calls, c)
              /\ r.force_switch => (r.menu_state = "switch" /\ ~Has(r.calls, "perform_player_switch"))
              /\ ~r.force_switch =>
                    /\ battle.message_queue = <<>>
                    /\ r.calls = <<"perform_player_switch">>
                    /\ r.active_index = battle.switch_index
                    /\ r.active_index # battle.active_index
                    /\ ~is_fainted(player_monster(r))
                    /\ r.menu_state = "action"

\* under a forced switch an event was handled and ran nothing: the menu stays
C6_Witness ==
    /\ InBattle
    /\ battle.force_switch
    /\ battle.message_queue = <<>>
    /\ battle.calls = <<>>
    /\ battle.menu_state = "switch"
    /\ battle.switch_index = battle.active_index

\* an advance key pressed on battle b when no random call can be reached
Advance(b) ==
    handle_battle_input([type |-> "KEYDOWN", key |-> "K_RETURN"], b, NoDraw)

Last(seq) == seq[Len(seq)]

(* C7: a valid switch made with force_switch false is followed by exactly   *)
(* one enemy turn, run by the advance that consumes 'Go X!'; a valid switch *)
(* made under force_switch is followed by none: after that advance the      *)
(* queue is empty, the action menu is open and no monster has changed.  An  *)
(* enemy turn runs only in a call entered with pending_enemy_turn set.      *)
C7_SwitchTurnCost ==
    InBattle =>
        \A ev \in Events : \A r \in Outcomes(ev) :
            /\ Has(r.calls, "execute_enemy_turn") => battle.pending_enemy_turn
            /\ Has(r.calls, "perform_player_switch") =>
                  /\ r.calls = <<"perform_player_switch">>
                  /\ r.message_queue =
                        <<[text |-> Text("Go", <<player_monster(r).name>>, 0),
                           callback |-> None]>>
                  /\ r.pending_enemy_turn = ~battle.force_switch
                  /\ \A ev2 \in AdvanceEvents : \A r2 \in OutcomesOf(r, ev2) :
                        /\ ~r2.pending_enemy_turn
                        /\ IF battle.force_switch
                           THEN /\ r2.calls = <<"pop_message">>
                                /\ r2.message_queue = <<>>
                                /\ r2.menu_state = "action"
                                /\ r2.player_party = r.player_party
                                /\ r2.enemy_party = r.enemy_party
                           ELSE /\ r2.calls = <<"pop_message", "execute_enemy_turn">>
                                /\ r2.message_queue # <<>>

\* a switch made under force_switch has just been performed: no turn is pending
C7_Witness ==
    /\ InBattle
    /\ battle.calls = <<"perform_player_switch">>
    /\ ~battle.pending_enemy_turn
    /\ Len(battle.message_queue) = 1
    /\ battle.message_queue[1].text.wording = "Go"

RejectionWordings == {"That monster is already in battle!", "can't fight!"}

(* C8: in the switch menu, confirming the active monster or a fainted one   *)
(* enqueues exactly one rejection message and changes nothing else of the   *)
(* battle; advancing that message runs no enemy turn.                       *)
C8_InvalidSwitchRejected ==
    (/\ InBattle
     /\ battle.message_queue = <<>>
     /\ battle.menu_state = "switch"
     /\ \/ battle.switch_index = battle.active_index
        \/ is_fainted(At(battle.player_party, battle.switch_index))) =>
        \A ev \in AdvanceEvents : \A r \in Outcomes(ev) :
            /\ r.calls = <<>>
            /\ Len(r.message_queue) = 1
            /\ r.message_queue[1].callback = None
            /\ r.message_queue[1].text.wording \in RejectionWordings
            /\ SameBattle([r EXCEPT !.message_queue = <<>>], battle)
            /\ \A ev2 \in AdvanceEvents : \A r2 \in OutcomesOf(r, ev2) :
                  r2.calls = <<"pop_message">> /\ SameBattle(r2, battle)

\* a rejection is queued: the cursor is on a fainted bench monster, nothing ran
C8_Witness ==
    /\ InBattle
    /\ battle.calls = <<>>
    /\ Len(battle.message_queue) = 1
    /\ battle.message_queue[1].text.wording = "can't fight!"
    /\ battle.menu_state = "switch"
    /\ battle.switch_index # battle.active_index

\* the finishing move of a trainer battle that leaves a later team member:
\* the battles r a confirmed move can leave, with the enemy fainted
FinishingMoves ==
    IF InBattle /\ battle.trainer_info # None /\ battle.message_queue = <<>>
    THEN {r \in UNION {Outcomes(ev) : ev \in AdvanceEvents} :
             /\ Has(r.calls, "execute_player_turn")
             /\ is_fainted(enemy_monster(r))
             /\ next_enemy_index(r) # None}
    ELSE {}

\* what C9 says of the advances after a finishing move, but for `ended`
SendOutFollows(r) ==
    LET r1 == Advance(r)
        r2 == Advance(r1)
        r3 == Advance(r2)
        r4 == Advance(r3)
    IN /\ Len(r.message_queue) = 4
       /\ r.message_queue[4].text.wording = "gained EXP"
       /\ r1.calls = <<"pop_message">> /\ r1.message_queue # <<>>
       /\ r2.calls = <<"pop_message">> /\ r2.message_queue # <<>>
       /\ r3.calls = <<"pop_message">> /\ r3.message_queue # <<>>
       /\ r4.calls = <<"pop_message", "award_exp", "handle_trainer_follow_up">>
       /\ r4.enemy_active_index = Value(next_enemy_index(r))
       /\ r4.enemy_active_index > r.enemy_active_index
       /\ ~is_fainted(enemy_monster(r4))
       /\ r4.message_queue # <<>>
       /\ Last(r4.message_queue).text =
             Text("sent out", <<TrainerName(r), enemy_monster(r4).name>>, 0)
       /\ ~r4.trainer_defeated
       /\ r4.after_battle_callback = None
       /\ r4.ended = r.ended

(* C9: in a trainer battle, when a move makes the active enemy faint and a  *)
(* later non-fainted team member exists, the advance that consumes 'gained  *)
(* EXP' moves the enemy active index to that member and enqueues 'sent      *)
(* out'; the queue is never empty in between, and the battle is not ended.  *)
C9_AsClaimed ==
    \A r \in FinishingMoves :
        SendOutFollows(r) /\ ~Advance(Advance(Advance(Advance(r)))).ended

(* C9 without its last clause: the same, but `ended` is only unchanged.     *)
C9_SendOutFollows == \A r \in FinishingMoves : SendOutFollows(r)

\* the finishing move against the last member of a trainer's team
LastFinishingMoves ==
    IF InBattle /\ battle.trainer_info # None /\ battle.message_queue = <<>>
    THEN {r \in UNION {Outcomes(ev) : ev \in AdvanceEvents} :
             /\ Has(r.calls, "execute_player_turn")
             /\ is_fainted(enemy_monster(r))
             /\ next_enemy_index(r) = None}
    ELSE {}

(* C10: trainer_defeated is set by the call that awards the experience for  *)
(* a fainted trainer monster with no non-fainted team member after it, by   *)
(* every such call and by no other; in that call badge_earned becomes the   *)
(* badge name if the trainer is a gym leader with a badge name and is left  *)
(* alone otherwise, and no other call changes badge_earned.                 *)
C10_TrainerDefeatAndBadge ==
    InBattle =>
        /\ \A ev \in Events : \A r \in Outcomes(ev) :
              LET beaten == /\ Has(r.calls, "award_exp")
                            /\ battle.trainer_info # None
                            /\ is_fainted(enemy_monster(battle))
                            /\ next_enemy_index(battle) = None
              IN /\ beaten => r.trainer_defeated
                 /\ ~beaten => /\ r.trainer_defeated = battle.trainer_defeated
                               /\ r.badge_earned = battle.badge_earned
                 /\ beaten =>
                       r.badge_earned =
                          IF /\ Value(battle.trainer_info).is_gym_leader
                             /\ Value(battle.trainer_info).badge_name # None
                          THEN Value(battle.trainer_info).badge_name
                          ELSE battle.badge_earned
                 /\ r.badge_earned # None =>
                       /\ r.trainer_defeated
                       /\ Value(r.trainer_info).is_gym_leader
                       /\ r.badge_earned = Value(r.trainer_info).badge_name
        /\ \A r \in LastFinishingMoves :
              /\ r.trainer_defeated = battle.trainer_defeated
              /\ Advance(Advance(Advance(Advance(r)))).trainer_defeated

\* a trainer who has a badge name but is no gym leader is beaten: no badge
C10_Witness ==
    /\ InBattle
    /\ Has(battle.calls, "handle_trainer_follow_up")
    /\ battle.trainer_defeated
    /\ Value(battle.trainer_info).badge_name # None
    /\ ~Value(battle.trainer_info).is_gym_leader
    /\ battle.badge_earned = None

\* the battle waits at the action menu with the cursor on `option`
AtOption(b, option) ==
    /\ b.message_queue = <<>>
    /\ ~b.force_switch
    /\ b.menu_state = "action"
    /\ At(b.action_options, b.action_index) = option

Message(wording, subject, callback) ==
    [text |-> Text(wording, subject, 0), callback |-> callback]

(* C11: in a wild battle, confirming Run enqueues either 'Got away safely!' *)
(* or 'Couldn't escape!', and both can happen.  After the first, the        *)
(* advance that drains the queue sets ended and runs no enemy turn; after   *)
(* the second, that advance runs exactly one enemy turn and leaves ended as *)
(* it was.                                                                   *)
C11_RunOutcomes ==
    (InBattle /\ battle.trainer_info = None /\ AtOption(battle, "Run")) =>
        /\ \A ev \in AdvanceEvents : \A r \in Outcomes(ev) :
              /\ r.calls = <<"attempt_escape">>
              /\ r.ended = battle.ended
              /\ \/ /\ r.message_queue = <<Message("Got away safely!", <<>>, Some(set_ended))>>
                    /\ ~r.pending_enemy_turn
                    /\ \A ev2 \in AdvanceEvents : \A r2 \in OutcomesOf(r, ev2) :
                          /\ r2.calls = <<"pop_message", "set_ended">>
                          /\ r2.message_queue = <<>>
                          /\ r2.ended
                          /\ SameBattle([r2 EXCEPT !.ended = battle.ended], battle)
                 \/ /\ r.message_queue = <<Message("Couldn't escape!", <<>>, None)>>
                    /\ r.pending_enemy_turn
                    /\ \A ev2 \in AdvanceEvents : \A r2 \in OutcomesOf(r, ev2) :
                          /\ r2.calls = <<"pop_message", "execute_enemy_turn">>
                          /\ ~r2.pending_enemy_turn
                          /\ r2.ended = battle.ended
        /\ \A ev \in AdvanceEvents :
              /\ \E r \in Outcomes(ev) : r.pending_enemy_turn
              /\ \E r \in Outcomes(ev) : ~r.pending_enemy_turn

\* a Run has just failed in a battle that had not ended
C11_Witness ==
    /\ InBattle
    /\ ~battle.ended
    /\ battle.calls = <<"attempt_escape">>
    /\ battle.message_queue = <<Message("Couldn't escape!", <<>>, None)>>
    /\ battle.pending_enemy_turn

(* C12: in a wild battle a successful Catch schedules no enemy turn; the     *)
(* advance of 'You caught' sets captured_monster to a copy holding the      *)
(* enemy's current values and captured_to_storage to party size >=          *)
(* max_party_size, and ended is true once the queue has drained.  A failed  *)
(* Catch leaves captured_monster and ended as they were and is followed by  *)
(* exactly one enemy turn.  Both outcomes can happen.                       *)
C12_CatchOutcomes ==
    (InBattle /\ battle.trainer_info = None /\ AtOption(battle, "Catch")) =>
        LET enemy == enemy_monster(battle)
            threw == Message("You threw a capture charm!", <<>>, None)
            full  == Len(battle.player_party) >= battle.max_party_size
        IN
        /\ \A ev \in AdvanceEvents : \A r \in Outcomes(ev) :
              /\ r.calls = <<"attempt_capture">>
              /\ Len(r.message_queue) = 2
              /\ r.message_queue[1] = threw
              /\ r.captured_monster = battle.captured_monster
              /\ r.ended = battle.ended
              /\ IF r.message_queue[2].text.wording = "You caught"
                 THEN LET r1 == Advance(r)
                          r2 == Advance(r1)
                          r3 == Advance(r2)
                      IN /\ ~r.pending_enemy_turn
                         /\ r1.calls = <<"pop_message">>
                         /\ r2.captured_monster = Some(enemy)
                         /\ r2.captured_to_storage = full
                         /\ r2.enemy_party = battle.enemy_party
                         /\ r2.player_party = battle.player_party
                         /\ ~r2.pending_enemy_turn
                         /\ IF full
                            THEN /\ r2.calls = <<"pop_message", "finish_capture">>
                                 /\ r2.message_queue =
                                       <<Message("will be sent to storage", <<enemy.name>>, None)>>
                                 /\ r2.ended = battle.ended
                                 /\ r3.calls = <<"pop_message", "set_ended">>
                                 /\ r3.message_queue = <<>>
                                 /\ r3.ended
                                 /\ r3.captured_monster = Some(enemy)
                            ELSE /\ r2.calls = <<"pop_message", "finish_capture", "set_ended">>
                                 /\ r2.message_queue = <<>>
                                 /\ r2.ended
                 ELSE /\ r.message_queue[2] = Message("broke free", <<enemy.name>>, None)
                      /\ r.pending_enemy_turn
                      /\ Advance(r).calls = <<"pop_message">>
                      /\ \A ev2 \in AdvanceEvents : \A r2 \in OutcomesOf(Advance(r), ev2) :
                            /\ r2.calls = <<"pop_message", "execute_enemy_turn">>
                            /\ ~r2.pending_enemy_turn
                            /\ r2.captured_monster = battle.captured_monster
                            /\ r2.ended = battle.ended
        /\ \A ev \in AdvanceEvents :
              /\ \E r \in Outcomes(ev) : r.pending_enemy_turn
              /\ \E r \in Outcomes(ev) : ~r.pending_enemy_turn

\* a wounded enemy has been caught by a party at capacity
C12_Witness ==
    /\ InBattle
    /\ Has(battle.calls, "finish_capture")
    /\ battle.captured_monster # None
    /\ battle.captured_to_storage
    /\ Value(battle.captured_monster).current_hp < Value(battle.captured_monster).max_hp
    /\ Value(battle.captured_monster) = enemy_monster(battle)

Range(seq) == {seq[i] : i \in DOMAIN seq}

(* C13: the action menu contains 'Catch' exactly when the battle has no     *)
(* trainer; in a trainer battle no event makes handle_battle_input enter    *)
(* attempt_capture or finish_capture, and captured_monster is unset.        *)
C13_NoCatchAgainstTrainers ==
    InBattle =>
        /\ ("Catch" \in Range(battle.action_options)) <=> (battle.trainer_info = None)
        /\ battle.trainer_info # None =>
              /\ battle.captured_monster = None
              /\ ~battle.captured_to_storage
              /\ \A ev \in Events : \A r \in Outcomes(ev) :
                    /\ ~Has(r.calls, "attempt_capture")
                    /\ ~Has(r.calls, "finish_capture")

\* in a trainer battle the third option, where a wild battle has Catch, was
\* confirmed: it is Run, and the trainer blocks it
C13_Witness ==
    /\ InBattle
    /\ battle.trainer_info # None
    /\ battle.action_index = 2
    /\ battle.calls = <<"attempt_escape">>
    /\ battle.message_queue = <<Message("The trainer blocks your escape!", <<>>, None)>>

\* the party is empty or holds fainted monsters only
NoFighter(party) == \A i \in DOMAIN party : party[i].current_hp <= 0

\* what the start functions can come to for the party of main
WildOutcomes ==
    UNION {StartBattleCall(player_party, wild_monsters, MAX_PARTY_SIZE) :
              wild_monsters \in WildLists}

TrainerOutcomes ==
    {StartTrainerBattleCall(trainer_id, trainers, player_party, MAX_PARTY_SIZE) :
        trainer_id \in TrainerIds, trainers \in TrainerFiles}

Errors == {"ValueError", "IndexError"}

(* C14 as claimed: with an empty or wholly fainted party, start_battle and  *)
(* start_trainer_battle fail with an error whatever the other arguments are.*)
C14_AsClaimed ==
    (game_mode = "overworld" /\ NoFighter(player_party)) =>
        \A outcome \in WildOutcomes \cup TrainerOutcomes : outcome.kind \in Errors

(* C14: with an empty or wholly fainted party neither start function yields *)
(* a BattleState.  start_battle always fails with an error;                 *)
(* start_trainer_battle fails with ValueError when the trainer is known and *)
(* a member of its team has a template, and returns None otherwise.         *)
C14_InvalidPartyNoBattle ==
    (game_mode = "overworld" /\ NoFighter(player_party)) =>
        /\ \A outcome \in WildOutcomes : outcome.kind \in Errors
        /\ \A trainer_id \in TrainerIds : \A trainers \in TrainerFiles :
              StartTrainerBattleCall(trainer_id, trainers, player_party,
                                     MAX_PARTY_SIZE).kind =
                 IF /\ trainer_id \in DOMAIN trainers
                    /\ \E i \in DOMAIN trainers[trainer_id].team :
                          IsTemplate(trainers[trainer_id].team[i])
                 THEN "ValueError"
                 ELSE "None"

\* a start with a party of fainted monsters has raised
C14_Witness ==
    /\ game_mode = "crashed"
    /\ player_party # <<>>
    /\ NoFighter(player_party)
    /\ battle = None

(* C15: whenever the overworld can start an encounter the player party     *)
(* holds a monster that has not fainted, so that the construction of a      *)
(* battle never raises during play.                                         *)
C15_AsClaimed ==
    /\ game_mode = "overworld" => ~NoFighter(player_party)
    /\ game_mode # "crashed"

(* C16: for every monster and all amounts a, b >= 0, gain_experience(a)     *)
(* followed by gain_experience(b) leaves the monster that a single          *)
(* gain_experience(a + b) leaves: same level, stats, HP, exp, exp_to_next.  *)
C16_ExperienceAdds ==
    \A i \in DOMAIN player_party : \A a \in ExpAmounts : \A b \in ExpAmounts :
        gain_experience(gain_experience(player_party[i], a)[1], b)[1]
            = gain_experience(player_party[i], a + b)[1]

\* experience has carried a monster over two thresholds, with a remainder
C16_Witness ==
    /\ battle = None
    /\ Len(player_party) = 1
    /\ player_party[1].level = 3
    /\ player_party[1].exp > 0
    /\ player_party[1].current_hp = player_party[1].max_hp

(* C17: for a monster with 0 <= exp < exp_to_next and an amount >= 0,       *)
(* gain_experience ends with 0 <= exp < exp_to_next and returns one message *)
(* per level gained, in order; when exp + amount = exp_to_next exactly one  *)
(* level is gained, one message is returned and exp is 0.                   *)
C17_OneMessagePerLevel ==
    \A i \in DOMAIN player_party : \A amount \in ExpAmounts :
        LET m == player_party[i]
            after == gain_experience(m, amount)[1]
            messages == gain_experience(m, amount)[2]
        IN (0 <= m.exp /\ m.exp < m.exp_to_next) =>
              /\ 0 <= after.exp /\ after.exp < after.exp_to_next
              /\ Len(messages) = after.level - m.level
              /\ \A k \in DOMAIN messages : messages[k] = m.level + k
              /\ m.exp + amount = m.exp_to_next =>
                    /\ after.level = m.level + 1
                    /\ Len(messages) = 1
                    /\ after.exp = 0

\* a gain that met the threshold exactly: level 2, no experience left over
C17_Witness ==
    /\ battle = None
    /\ Len(player_party) = 1
    /\ player_party[1].level = 2
    /\ player_party[1].exp = 0
    /\ player_party[1].exp_to_next = 26

\* the enemy with `hp` of its max_hp left
EnemyAt(hp) == [enemy_monster(battle) EXCEPT !.current_hp = hp]

(* C18: for an enemy with max_hp >= 1 the capture chance is 0.3 at full HP  *)
(* and 0.8 at 0 HP, lies in [0.3, 0.8] for every 0 <= current_hp <= max_hp  *)
(* and does not decrease when current_hp decreases; a draw succeeds exactly *)
(* when it is at most the chance.                                           *)
C18_CatchChance ==
    (InBattle /\ enemy_monster(battle).max_hp >= 1) =>
        LET max_hp == enemy_monster(battle).max_hp IN
        /\ 10 * CatchNumerator(EnemyAt(max_hp)) = 3 * CatchDenominator(EnemyAt(max_hp))
        /\ 10 * CatchNumerator(EnemyAt(0)) = 8 * CatchDenominator(EnemyAt(0))
        /\ catch_chance(EnemyAt(max_hp)) = 30
        /\ catch_chance(EnemyAt(0)) = 80
        /\ \A hp \in 0 .. max_hp :
              /\ 3 * CatchDenominator(EnemyAt(hp)) <= 10 * CatchNumerator(EnemyAt(hp))
              /\ 10 * CatchNumerator(EnemyAt(hp)) <= 8 * CatchDenominator(EnemyAt(hp))
              /\ \A lower \in 0 .. hp :
                    /\ CatchNumerator(EnemyAt(lower)) >= CatchNumerator(EnemyAt(hp))
                    /\ catch_chance(EnemyAt(lower)) >= catch_chance(EnemyAt(hp))
        /\ (battle.trainer_info = None /\ AtOption(battle, "Catch")) =>
              \A rnd \in Draws(battle) :
                 LET r == handle_battle_input([type |-> "KEYDOWN", key |-> "K_RETURN"],
                                              battle, rnd)
                 IN (r.message_queue[2].text.wording = "You caught")
                       <=> (rnd.roll * CatchDenominator(enemy_monster(battle))
                               <= 100 * CatchNumerator(enemy_monster(battle)))

\* a charm thrown at a wounded enemy caught it
C18_Witness ==
    /\ InBattle
    /\ battle.calls = <<"attempt_capture">>
    /\ Len(battle.message_queue) = 2
    /\ battle.message_queue[2].text.wording = "You caught"
    /\ 0 < enemy_monster(battle).current_hp
    /\ enemy_monster(battle).current_hp < enemy_monster(battle).max_hp

\* the ceiling C19 and C20 give: max(1, power + attack - floor(defense / 2))
DamageCeiling(attacker, defender, move) ==
    LET base == move.power + attacker.attack - (defender.defense \div 2)
    IN IF base >= 1 THEN base ELSE 1

(* C19: a move that hits, of the player or of the enemy, deals damage d     *)
(* with 1 <= d <= max(1, power + attack - floor(defense / 2)); the          *)
(* defender's HP afterwards is max(0, hp - d): at least 1 lower whenever hp *)
(* was at least 1, and never below 0.                                       *)
C19_DamageBounds ==
    InBattle =>
        \A ev \in Events : \A r \in Outcomes(ev) :
            (Has(r.calls, "execute_player_turn") \/ Has(r.calls, "execute_enemy_turn")) =>
                \A k \in DOMAIN r.message_queue :
                    r.message_queue[k].text.wording = "It dealt damage" =>
                        LET d == r.message_queue[k].text.amount
                            by_player == Has(r.calls, "execute_player_turn")
                            attacker == IF by_player THEN player_monster(battle)
                                        ELSE enemy_monster(battle)
                            before == IF by_player THEN enemy_monster(battle)
                                      ELSE player_monster(battle)
                            after == IF by_player THEN enemy_monster(r)
                                     ELSE player_monster(r)
                            used == Last(r.message_queue[k - 1].text.subject)
                        IN /\ 1 <= d
                           /\ \E i \in DOMAIN attacker.moves :
                                 /\ attacker.moves[i].name = used
                                 /\ by_player => i = battle.move_index + 1
                                 /\ d <= DamageCeiling(attacker, before, attacker.moves[i])
                           /\ after = [before EXCEPT !.current_hp =
                                          IF before.current_hp - d >= 0
                                          THEN before.current_hp - d ELSE 0]
                           /\ after.current_hp >= 0
                           /\ before.current_hp >= 1 =>
                                 after.current_hp <= before.current_hp - 1

\* the player's move has hit for more than 1 and the enemy still stands
C19_Witness ==
    /\ InBattle
    /\ battle.calls = <<"execute_player_turn">>
    /\ Len(battle.message_queue) = 2
    /\ battle.message_queue[2].text.wording = "It dealt damage"
    /\ battle.message_queue[2].text.amount >= 2
    /\ enemy_monster(battle).current_hp >= 1

\* base * variance in hundredths, for the attacker's move against the defender
DamageProduct(variance) ==
    DamageCeiling(player_party[1], player_party[2], player_party[1].moves[1]) * variance

DamageDealt(variance) ==
    calculate_damage(player_party[1], player_party[2], player_party[1].moves[1], variance)

\* C20 as claimed: calculate_damage returns max(1, round(base * U)), the
\* product rounded to the nearest integer (a tie may go either way)
C20_AsClaimed ==
    \A variance \in DamageVariances :
        LET d == DamageDealt(variance)
            p == DamageProduct(variance)
        IN /\ d >= 1
           /\ d = 1 => p <= 150
           /\ d > 1 => (100 * d - p <= 50 /\ p - 100 * d <= 50)

(* C20, amended: calculate_damage returns max(1, floor(base * U)) where     *)
(* base = max(1, power + attack - floor(defense * 0.5)) and U is a factor   *)
(* in [0.85, 1.0]: the product base * U is rounded down, never up.          *)
C20_DamageTruncates ==
    \A variance \in DamageVariances :
        LET d == DamageDealt(variance)
            p == DamageProduct(variance)
        IN /\ d >= 1
           /\ d = 1 => p < 200
           /\ d > 1 => (100 * d <= p /\ p < 100 * (d + 1))

\* one hit has taken less than base * 0.85 rounds to: the product was cut
C20_Witness ==
    /\ battle = None
    /\ Len(player_party) = 2
    /\ LET d == player_party[2].max_hp - player_party[2].current_hp
           p == DamageProduct(85)
       IN /\ d >= 2
          /\ 100 * d <= p
          /\ p - 100 * d > 50

-----------------------------------------------------------------------------
\* the five events that end a battle, read off the battle b a handler call
\* started from and the battle r it left
WildEnemyFainted(r) == r.trainer_info = None /\ is_fainted(enemy_monster(r))

CaptureSucceeded(r) == r.trainer_info = None /\ r.captured_monster # None

EscapeSucceeded(b) ==
    /\ b.trainer_info = None
    /\ b.message_queue # <<>>
    /\ Head(b.message_queue).text.wording = "Got away safely!"

PartyFainted(r) == NoFighter(r.player_party)

TrainerTeamFainted(r) ==
    /\ r.trainer_info # None
    /\ \A i \in DOMAIN r.enemy_party : r.enemy_party[i].current_hp <= 0

(* C21: ended becomes true only as the result of one of five events: the    *)
(* wild enemy fainting, a successful capture, a successful escape, the      *)
(* player's whole party having fainted, or a trainer's last monster         *)
(* fainting; no other handler call sets ended.                              *)
C21_EndedOnlyByFiveEvents ==
    InBattle =>
        \A ev \in Events : \A r \in Outcomes(ev) :
            (~battle.ended /\ r.ended) =>
                /\ IsAdvance(ev)
                /\ battle.message_queue # <<>>
                /\ \/ WildEnemyFainted(r)
                   \/ CaptureSucceeded(r)
                   \/ EscapeSucceeded(battle)
                   \/ PartyFainted(r)
                   \/ TrainerTeamFainted(r)

\* a battle that has just ended with a trainer's whole team fainted, the
\* player's party still standing
C21_Witness ==
    /\ InBattle
    /\ battle.ended
    /\ Has(battle.calls, "set_ended")
    /\ TrainerTeamFainted(battle)
    /\ Len(battle.enemy_party) = 2
    /\ ~PartyFainted(battle)

-----------------------------------------------------------------------------
\* the outcome fields end_battle reads
OutcomeFields(b) ==
    <<b.ended, b.captured_monster, b.captured_to_storage, b.trainer_defeated,
      b.badge_earned>>

\* level, HP and exp of every monster of both sides, in list order
Conditions(b) ==
    <<[i \in DOMAIN b.player_party |->
          <<b.player_party[i].level, b.player_party[i].current_hp, b.player_party[i].exp>>],
      [i \in DOMAIN b.enemy_party |->
          <<b.enemy_party[i].level, b.enemy_party[i].current_hp, b.enemy_party[i].exp>>]>>

\* C22 as claimed: once ended is true it never becomes false, and no event
\* handled after that point changes a monster's HP, level or exp, changes an
\* outcome field, enqueues a message or schedules an enemy turn
C22_AsClaimed ==
    (InBattle /\ battle.ended) =>
        \A ev \in Events : \A r \in Outcomes(ev) :
            /\ r.ended
            /\ Conditions(r) = Conditions(battle)
            /\ OutcomeFields(r) = OutcomeFields(battle)
            /\ Len(r.message_queue) <= Len(battle.message_queue)
            /\ r.pending_enemy_turn = battle.pending_enemy_turn

-----------------------------------------------------------------------------
\* the engine is blocked while a message is queued or an enemy turn is pending
Blocked(b) == b.message_queue # <<>> \/ b.pending_enemy_turn

\* the battles left when every blocked battle of S is advanced, at most n
\* times, whatever the enemy draws
RECURSIVE DrainFrom(_, _)
DrainFrom(S, n) ==
    IF n = 0 \/ \A b \in S : ~Blocked(b)
    THEN S
    ELSE DrainFrom({b \in S : ~Blocked(b)}
                      \cup UNION {OutcomesOf(b, [type |-> "KEYDOWN", key |-> "K_z"]) :
                                     b \in {c \in S : Blocked(c)}},
                   n - 1)

\* a decision point: both sides stand and a menu takes the next key, or the
\* player's monster is down and the forced switch is open
WaitingForInput(b) ==
    /\ b.menu_state \in {"action", "move", "switch"}
    /\ b.after_battle_callback = None
    /\ ~is_fainted(enemy_monster(b))
    /\ is_fainted(player_monster(b)) =>
          (b.force_switch /\ b.menu_state = "switch"
              /\ available_switch_targets(b) # {})

(* C23: from any reachable battle state, with no new intent, repeated       *)
(* advancing reaches after finitely many advances (at most MaxDrain) a      *)
(* state with an empty queue and no pending enemy turn, and there the       *)
(* battle is ended or waits for input at the action, move or switch menu;   *)
(* an enemy turn is pending only while a message is queued, so every step   *)
(* of the drain is an advance of the queue.                                 *)
C23_DrainTerminates ==
    InBattle =>
        /\ battle.pending_enemy_turn => battle.message_queue # <<>>
        /\ \A d \in DrainFrom({battle}, MaxDrain) :
              /\ ~Blocked(d)
              /\ d.ended \/ WaitingForInput(d)

\* a queue of several messages with an enemy turn pending, whose drain can
\* end at the forced switch
C23_Witness ==
    /\ InBattle
    /\ ~battle.ended
    /\ battle.pending_enemy_turn
    /\ Len(battle.message_queue) >= 2
    /\ \E d \in DrainFrom({battle}, MaxDrain) : ~Blocked(d) /\ d.force_switch

-----------------------------------------------------------------------------
\* every battle passed through while the blocked battles of S are advanced,
\* S included, whatever the enemy draws
RECURSIVE DrainVisits(_, _)
DrainVisits(S, n) ==
    IF n = 0 \/ \A b \in S : ~Blocked(b)
    THEN S
    ELSE S \cup DrainVisits(
                   UNION {OutcomesOf(b, [type |-> "KEYDOWN", key |-> "K_z"]) :
                             b \in {c \in S : Blocked(c)}},
                   n - 1)

\* what a move of the player that makes the active enemy faint can leave
FaintingMoves ==
    IF InBattle
    THEN {r \in UNION {Outcomes(ev) : ev \in AdvanceEvents} :
             /\ Has(r.calls, "execute_player_turn")
             /\ ~is_fainted(enemy_monster(battle))
             /\ is_fainted(enemy_monster(r))}
    ELSE {}

(* C24: when a player move makes the active enemy monster faint,            *)
(* pending_enemy_turn is false and no enemy turn executes between that move *)
(* and the next accepted player intent (or the end of the battle),          *)
(* including when a trainer sends out its next monster.                     *)
C24_FaintPreemptsRetaliation ==
    \A r \in FaintingMoves :
        /\ ~r.pending_enemy_turn
        /\ ~Has(r.calls, "execute_enemy_turn")
        /\ \A d \in DrainVisits({r}, MaxDrain) :
              /\ ~d.pending_enemy_turn
              /\ d = r \/ ~Has(d.calls, "execute_enemy_turn")

\* the move has made a trainer's first monster faint and a second one waits
C24_Witness ==
    /\ InBattle
    /\ ~battle.ended
    /\ battle.trainer_info # None
    /\ Has(battle.calls, "execute_player_turn")
    /\ is_fainted(enemy_monster(battle))
    /\ next_enemy_index(battle) # None

-----------------------------------------------------------------------------
\* the numbers of enemy turns the drains of battle b can contain, one number
\* per sequence of at most n advances and enemy draws
RECURSIVE TurnCounts(_, _)
TurnCounts(b, n) ==
    IF n = 0 \/ ~Blocked(b)
    THEN {0}
    ELSE UNION {{Count(r.calls, "execute_enemy_turn") + k : k \in TurnCounts(r, n - 1)} :
                   r \in OutcomesOf(b, [type |-> "KEYDOWN", key |-> "K_z"])}

\* the messages execute_enemy_turn enqueues
EnemyTurnWordings == {"missed", "used", "It dealt damage", "fainted"}

(* C25: execute_enemy_turn runs only inside an advance that leaves the      *)
(* message queue empty while pending_enemy_turn is set; the flag is cleared *)
(* before it runs, so one setting of the flag yields exactly one enemy turn *)
(* and the enemy never acts while unread messages remain.                   *)
C25_EnemyTurnOnDrain ==
    InBattle =>
        /\ \A ev \in Events : \A r \in Outcomes(ev) :
              Has(r.calls, "execute_enemy_turn") =>
                  /\ IsAdvance(ev)
                  /\ battle.pending_enemy_turn
                  /\ Len(battle.message_queue) = 1
                  /\ Head(r.calls) = "pop_message"
                  /\ Count(r.calls, "execute_enemy_turn") = 1
                  /\ ~r.pending_enemy_turn
                  /\ \A k \in DOMAIN r.message_queue :
                        r.message_queue[k].text.wording \in EnemyTurnWordings
        /\ battle.pending_enemy_turn => TurnCounts(battle, MaxDrain) = {1}
        /\ ~battle.pending_enemy_turn => TurnCounts(battle, MaxDrain) = {0}

\* the enemy has just acted, after the last message before it was read
C25_Witness ==
    /\ InBattle
    /\ ~battle.ended
    /\ Has(battle.calls, "execute_enemy_turn")
    /\ Len(battle.message_queue) = 3
    /\ ~battle.pending_enemy_turn

-----------------------------------------------------------------------------
\* the intent functions a handler call has entered
IntentsIn(calls) == {i \in DOMAIN calls : calls[i] \in IntentCalls}

(* C26: turns are player-first and alternate.  pending_enemy_turn is raised *)
(* only by a call that runs one turn-consuming player action on the empty   *)
(* queue, and every enemy turn takes the raised flag down without a player  *)
(* action in the same call: so no enemy turn comes before the first such    *)
(* action and no two enemy turns come without one between them.  Every      *)
(* player move that misses or leaves the enemy standing is followed by      *)
(* exactly one enemy turn before the queue is empty again.                  *)
C26_TurnsAlternate ==
    InBattle =>
        /\ ~battle.pending_enemy_turn => TurnCounts(battle, MaxDrain) = {0}
        /\ \A ev \in Events : \A r \in Outcomes(ev) :
              /\ (r.pending_enemy_turn /\ ~battle.pending_enemy_turn) =>
                    /\ battle.message_queue = <<>>
                    /\ Cardinality(IntentsIn(r.calls)) = 1
                    /\ ~Has(r.calls, "execute_enemy_turn")
              /\ (r.pending_enemy_turn /\ battle.pending_enemy_turn) =>
                    (IntentsIn(r.calls) = {} /\ ~Has(r.calls, "execute_enemy_turn"))
              /\ Has(r.calls, "execute_enemy_turn") =>
                    /\ battle.pending_enemy_turn
                    /\ ~r.pending_enemy_turn
                    /\ IntentsIn(r.calls) = {}
                    /\ Count(r.calls, "execute_enemy_turn") = 1
              /\ (Has(r.calls, "execute_player_turn") /\ ~is_fainted(enemy_monster(r))) =>
                    /\ r.pending_enemy_turn
                    /\ TurnCounts(r, MaxDrain) = {1}
              /\ (Has(r.calls, "execute_player_turn")
                    /\ Last(r.message_queue).text.wording = "missed") =>
                    /\ r.pending_enemy_turn
                    /\ TurnCounts(r, MaxDrain) = {1}

\* the enemy answers a move that hit and left it standing
C26_Witness ==
    /\ InBattle
    /\ ~battle.ended
    /\ Has(battle.calls, "execute_player_turn")
    /\ battle.pending_enemy_turn
    /\ Len(battle.message_queue) = 2
    /\ battle.message_queue[2].text.wording = "It dealt damage"
    /\ ~is_fainted(enemy_monster(battle))

-----------------------------------------------------------------------------
\* the 0-based positions of the party members that stand and are not active
Eligible(b) ==
    {i \in 0 .. Len(b.player_party) - 1 :
        i # b.active_index /\ b.player_party[i + 1].current_hp > 0}

(* C27: choosing Switch from the action menu when no non-fainted,           *)
(* non-active party member exists enqueues 'No other monsters can fight!',  *)
(* keeps menu_state 'action', schedules no enemy turn and changes no        *)
(* monster; when such a member exists it enters the switch menu with the    *)
(* cursor on an eligible target (kept if it was on one already) and         *)
(* enqueues nothing.  Nothing else of the battle changes either way.        *)
C27_SwitchOption ==
    (InBattle /\ AtOption(battle, "Switch")) =>
        \A ev \in AdvanceEvents : \A r \in Outcomes(ev) :
            IF Eligible(battle) = {}
            THEN /\ r.message_queue =
                       <<Message("No other monsters can fight!", <<>>, None)>>
                 /\ r.menu_state = "action"
                 /\ ~r.pending_enemy_turn
                 /\ Monsters(r) = Monsters(battle)
                 /\ SameBattle(battle, [r EXCEPT !.message_queue = <<>>])
            ELSE /\ r.message_queue = <<>>
                 /\ r.menu_state = "switch"
                 /\ r.switch_index \in Eligible(battle)
                 /\ battle.switch_index \in Eligible(battle) =>
                       r.switch_index = battle.switch_index
                 /\ SameBattle(battle, [r EXCEPT !.menu_state = "action",
                                                 !.switch_index = battle.switch_index])

\* Switch was refused although the party has a second member: it has fainted
C27_Witness ==
    /\ InBattle
    /\ ~battle.ended
    /\ battle.calls = <<>>
    /\ Len(battle.player_party) = 2
    /\ battle.menu_state = "action"
    /\ battle.message_queue = <<Message("No other monsters can fight!", <<>>, None)>>

-----------------------------------------------------------------------------
(* C28: in a trainer battle Run never ends the battle: it enqueues the      *)
(* refusal 'The trainer blocks your escape!' and nothing else, ended and    *)
(* every other outcome field stay as they were, menu_state stays 'action',  *)
(* and exactly one enemy turn executes when the queue drains: in the        *)
(* advance that reads the refusal.                                          *)
C28_TrainerBlocksRun ==
    (InBattle /\ battle.trainer_info # None /\ AtOption(battle, "Run")) =>
        \A ev \in AdvanceEvents : \A r \in Outcomes(ev) :
            /\ r.calls = <<"attempt_escape">>
            /\ r.message_queue =
                   <<Message("The trainer blocks your escape!", <<>>, None)>>
            /\ r.ended = battle.ended
            /\ OutcomeFields(r) = OutcomeFields(battle)
            /\ r.after_battle_callback = battle.after_battle_callback
            /\ r.menu_state = "action"
            /\ r.pending_enemy_turn
            /\ Monsters(r) = Monsters(battle)
            /\ TurnCounts(r, MaxDrain) = {1}
            /\ \A d \in OutcomesOf(r, ev) :
                  /\ Has(d.calls, "execute_enemy_turn")
                  /\ ~Has(d.calls, "set_ended")
                  /\ d.ended = battle.ended

\* a trainer has just blocked the escape
C28_Witness ==
    /\ InBattle
    /\ ~battle.ended
    /\ battle.trainer_info # None
    /\ battle.calls = <<"attempt_escape">>
    /\ battle.pending_enemy_turn
    /\ Len(battle.message_queue) = 1

-----------------------------------------------------------------------------
\* n advances from battle b when no random call can be reached
RECURSIVE AdvanceN(_, _)
AdvanceN(b, n) == IF n = 0 THEN b ELSE AdvanceN(Advance(b), n - 1)

\* what a move that makes the last standing monster of a trainer faint leaves
TrainerLastFaints == {r \in FaintingMoves : r.trainer_info # None /\ next_enemy_index(r) = None}

\* the queue once 'gained EXP' is read: the level-up messages, then the
\* trainer's dialogue_after lines in their order
DialogueFollowsLevelUps(r) ==
    LET trainer == Value(r.trainer_info)
        lines == trainer.dialogue_after
        before == player_monster(r)
        read == AdvanceN(r, 4)
        levels == player_monster(read).level - before.level
        queue == read.message_queue
    IN /\ Len(r.message_queue) = 4
       /\ Len(queue) = levels + Len(lines)
       /\ \A k \in 1 .. levels :
             queue[k].text = Text("grew to level", <<before.name>>, before.level + k)
       /\ \A k \in 1 .. Len(lines) :
             queue[levels + k].text =
                 Text("dialogue_after", <<trainer.name, lines[k]>>, 0)

\* ended is set by the advance that reads the last of these messages, or by
\* the advance that reads 'gained EXP' when there is none
EndsWithLastMessage(r) ==
    LET read == AdvanceN(r, 4)
        left == Len(read.message_queue)
    IN /\ Has(AdvanceN(read, left).calls, "set_ended")
       /\ AdvanceN(read, left).ended
       /\ AdvanceN(read, left).message_queue = <<>>
       /\ \A k \in 0 .. left + 3 : ~Has(AdvanceN(r, k).calls, "set_ended")

\* C29 as claimed: when a trainer's last monster faints, the dialogue lines
\* are enqueued in their configured order after any level-up messages, ended
\* becomes true only in the advance that consumes the last of them (or when
\* the queue next drains), and ended is never true while any of these
\* messages is still queued
C29_AsClaimed ==
    \A r \in TrainerLastFaints :
        /\ DialogueFollowsLevelUps(r)
        /\ EndsWithLastMessage(r)
        /\ \A k \in 0 .. Len(AdvanceN(r, 4).message_queue) + 3 : ~AdvanceN(r, k).ended

(* C29 for a battle that had not ended when the move was chosen: the same.  *)
C29_DialogueThenEnd ==
    \A r \in TrainerLastFaints :
        ~battle.ended =>
            /\ DialogueFollowsLevelUps(r)
            /\ EndsWithLastMessage(r)
            /\ \A k \in 0 .. Len(AdvanceN(r, 4).message_queue) + 3 : ~AdvanceN(r, k).ended

-----------------------------------------------------------------------------
\* what a move that makes a wild enemy faint leaves
WildFaints == {r \in FaintingMoves : r.trainer_info = None}

\* after 'gained EXP' only the level-up messages are queued; set_ended runs
\* in the advance that empties the queue and in no advance before; up to
\* then the queue is never empty, so no key reaches a menu
EndsWhenExpIsRead(r) ==
    LET before == player_monster(r)
        read == AdvanceN(r, 4)
        levels == player_monster(read).level - before.level
        left == Len(read.message_queue)
    IN /\ Len(r.message_queue) = 4
       /\ r.message_queue[4].text.wording = "gained EXP"
       /\ left = levels
       /\ \A k \in 1 .. levels :
             read.message_queue[k].text =
                 Text("grew to level", <<before.name>>, before.level + k)
       /\ Has(AdvanceN(r, 4 + left).calls, "set_ended")
       /\ AdvanceN(r, 4 + left).ended
       /\ AdvanceN(r, 4 + left).message_queue = <<>>
       /\ \A k \in 0 .. left + 3 :
             /\ ~Has(AdvanceN(r, k).calls, "set_ended")
             /\ AdvanceN(r, k).message_queue # <<>>
             /\ \A ev \in Events : \A d \in OutcomesOf(AdvanceN(r, k), ev) :
                   IntentsIn(d.calls) = {} /\ d.menu_state = r.menu_state

\* C30 as claimed: in a wild battle, when the enemy faints, ended becomes
\* true exactly when the queue drains after 'gained EXP' and every level-up
\* message have been advanced; ended is not true earlier, and no player
\* intent is accepted between the finishing move and ended becoming true
C30_AsClaimed ==
    \A r \in WildFaints :
        /\ EndsWhenExpIsRead(r)
        /\ \A k \in 0 .. Len(AdvanceN(r, 4).message_queue) + 3 : ~AdvanceN(r, k).ended

(* C30 for a battle that had not ended when the move was chosen: the same.  *)
C30_WildFaintThenEnd ==
    \A r \in WildFaints :
        ~battle.ended =>
            /\ EndsWhenExpIsRead(r)
            /\ \A k \in 0 .. Len(AdvanceN(r, 4).message_queue) + 3 : ~AdvanceN(r, k).ended

-----------------------------------------------------------------------------
\* an enemy hit has just made the active player monster faint
EnemyHitFainted(b) ==
    /\ Has(b.calls, "execute_enemy_turn")
    /\ is_fainted(player_monster(b))
    /\ Len(b.message_queue) = 3
    /\ b.message_queue[3].text.wording = "fainted"

(* C31: when an enemy hit makes the active player monster faint: if no      *)
(* other party member is non-fainted, force_switch stays false and ended    *)
(* becomes true in the advance that consumes the 'fainted' message; if a    *)
(* replacement exists, that advance leaves ended as it was and sets         *)
(* force_switch and menu_state 'switch' with the cursor on a non-fainted,   *)
(* non-active member.  The two advances before it change neither.           *)
C31_PlayerFaintOutcome ==
    (InBattle /\ EnemyHitFainted(battle)) =>
        LET read == AdvanceN(battle, 3) IN
        /\ \A k \in 0 .. 2 :
              /\ AdvanceN(battle, k).ended = battle.ended
              /\ ~AdvanceN(battle, k).force_switch
              /\ ~Has(AdvanceN(battle, k).calls, "handle_faint")
        /\ Has(read.calls, "handle_faint")
        /\ read.message_queue = <<>>
        /\ IF Eligible(battle) = {}
           THEN /\ ~read.force_switch
                /\ read.ended
                /\ Has(read.calls, "set_ended")
           ELSE /\ read.ended = battle.ended
                /\ ~Has(read.calls, "set_ended")
                /\ read.force_switch
                /\ read.menu_state = "switch"
                /\ read.switch_index \in Eligible(battle)

\* the last standing monster of a party of two has fainted to an enemy hit
\* and the battle has ended
C31_Witness ==
    /\ InBattle
    /\ battle.calls = <<"pop_message", "handle_faint", "set_ended">>
    /\ battle.ended
    /\ ~battle.force_switch
    /\ Len(battle.player_party) = 2
    /\ late_events = 0

-----------------------------------------------------------------------------
\* the 'gained EXP' messages waiting in the queue of b
GainedExp(b) ==
    Cardinality({k \in DOMAIN b.message_queue :
                    b.message_queue[k].text.wording = "gained EXP"})

\* level and exp of the party of b, in list order
Experience(b) ==
    [i \in DOMAIN b.player_party |-> <<b.player_party[i].level, b.player_party[i].exp>>]

\* a finishing move r awards nothing itself; the advance that reads 'gained
\* EXP' awards 10 + 5 * level of the fainted enemy, once, to the monster that
\* was active when the move was chosen; no later advance of the drain awards
AwardedOnce(r) ==
    LET fainted == enemy_monster(r)
        amount == 10 + 5 * fainted.level
        read == AdvanceN(r, 4)
    IN /\ r.player_party = battle.player_party
       /\ GainedExp(r) = 1
       /\ r.message_queue[4].text = Text("gained EXP", <<player_monster(battle).name>>, amount)
       /\ \A k \in 0 .. 3 :
             /\ AdvanceN(r, k).player_party = battle.player_party
             /\ ~Has(AdvanceN(r, k).calls, "award_exp")
       /\ Count(read.calls, "award_exp") = 1
       /\ read.player_party =
              SetAt(battle.player_party, battle.active_index,
                    gain_experience(player_monster(battle), amount)[1])
       /\ \A d \in DrainVisits({read}, MaxDrain) :
             /\ GainedExp(d) = 0
             /\ d = read \/ ~Has(d.calls, "award_exp")
             /\ Experience(d) = Experience(read)

\* a handler call awards only by reading 'gained EXP', and queues that
\* message only with a move that makes a standing enemy faint
AwardsOnlyForFaints ==
    \A ev \in Events : \A r \in Outcomes(ev) :
        /\ GainedExp(r) > GainedExp(battle) => r \in FaintingMoves
        /\ Has(r.calls, "award_exp") =>
              /\ battle.message_queue # <<>>
              /\ Head(battle.message_queue).text.wording = "gained EXP"
        /\ ~Has(r.calls, "award_exp") => Experience(r) = Experience(battle)

\* C32 as claimed: each enemy monster that faints awards experience exactly
\* once, of amount 10 + 5 * its level, to the player monster that was active
\* when the finishing move was chosen; the award is applied only when the
\* 'gained EXP' message is advanced, and enemies that do not faint award
\* nothing
C32_AsClaimed ==
    InBattle =>
        /\ \A r \in FaintingMoves : AwardedOnce(r)
        /\ AwardsOnlyForFaints

(* C32 for a battle that has not ended: the same.                           *)
C32_ExpAwardedOnce ==
    (InBattle /\ ~battle.ended) =>
        /\ \A r \in FaintingMoves : AwardedOnce(r)
        /\ AwardsOnlyForFaints

-----------------------------------------------------------------------------
\* nothing lies dormant behind an empty queue
NothingDormant(b) ==
    b.message_queue = <<>> => (~b.pending_enemy_turn /\ b.after_battle_callback = None)

(* C33: whenever handle_battle_input returns with an empty message queue,   *)
(* pending_enemy_turn is false and after_battle_callback is unset: a        *)
(* pending enemy turn or a scheduled battle end never lies dormant behind   *)
(* an empty queue.                                                          *)
C33_NothingDormant ==
    InBattle =>
        /\ NothingDormant(battle)
        /\ \A ev \in Events : \A r \in Outcomes(ev) : NothingDormant(r)

\* the last dialogue line of a beaten trainer has been read: finish_battle
\* scheduled the end and the same call ran it
C33_Witness ==
    /\ InBattle
    /\ battle.calls = <<"pop_message", "finish_battle", "set_ended">>
    /\ battle.message_queue = <<>>
    /\ battle.ended

-----------------------------------------------------------------------------
\* the state a battle starts in, for the party it was given
StartsReady(b, party) ==
    /\ b.player_party = party
    /\ b.active_index \in 0 .. Len(party) - 1
    /\ party[b.active_index + 1].current_hp > 0
    /\ \A i \in 0 .. b.active_index - 1 : party[i + 1].current_hp <= 0
    /\ party[1].current_hp > 0 => b.active_index = 0
    /\ ~b.force_switch
    /\ ~b.pending_enemy_turn
    /\ ~b.ended
    /\ b.menu_state = "action"

(* C34: at battle start the active player monster is the first non-fainted  *)
(* member of the party (index 0 if it is not fainted), it is not fainted,   *)
(* force_switch and pending_enemy_turn are false, ended is false and        *)
(* menu_state is 'action'.                                                  *)
C34_BattleStart ==
    /\ game_mode = "overworld" =>
          \A outcome \in WildOutcomes \cup TrainerOutcomes :
              outcome.kind = "BattleState" => StartsReady(outcome.battle, player_party)
    /\ game_mode = "battle" => StartsReady(battle, player_party)

\* a battle has started with the second member leading: the first has fainted
C34_Witness ==
    /\ game_mode = "battle"
    /\ Len(player_party) = 2
    /\ player_party[1].current_hp = 0
    /\ battle.active_index = 1
    /\ battle.switch_index = 1

-----------------------------------------------------------------------------
(* C35: in a trainer battle the enemy active index never decreases, and     *)
(* trainer_defeated is true only in states where every monster of the enemy *)
(* party has fainted (every team member starts with positive HP).           *)
C35_TeamOrder ==
    (InBattle /\ battle.trainer_info # None) =>
        /\ battle.enemy_active_index \in 0 .. Len(battle.enemy_party) - 1
        /\ battle.trainer_defeated =>
              \A i \in DOMAIN battle.enemy_party : battle.enemy_party[i].current_hp <= 0
        /\ \A i \in DOMAIN battle.enemy_party :
              i < battle.enemy_active_index + 1 => battle.enemy_party[i].current_hp <= 0
        /\ \A ev \in Events : \A r \in Outcomes(ev) :
              /\ r.enemy_active_index >= battle.enemy_active_index
              /\ r.trainer_defeated =>
                    \A i \in DOMAIN r.enemy_party : r.enemy_party[i].current_hp <= 0

\* the second monster of a team of two is out after the first has fainted
C35_Witness ==
    /\ InBattle
    /\ battle.trainer_info # None
    /\ ~battle.trainer_defeated
    /\ battle.enemy_active_index = 1
    /\ battle.enemy_party[1].current_hp = 0
    /\ battle.enemy_party[2].current_hp > 0
    /\ battle.message_queue = <<>>

-----------------------------------------------------------------------------
\* the outcome fields of b agree with each other and with the kind of battle
OutcomeConsistent(b) ==
    /\ b.captured_monster # None => b.trainer_info = None
    /\ b.trainer_defeated => b.trainer_info # None
    /\ b.badge_earned # None => (b.trainer_info # None /\ b.trainer_defeated)
    /\ b.captured_to_storage => b.captured_monster # None

(* C36: the outcome fields are mutually consistent in every reachable       *)
(* state: captured_monster is set only in wild battles, trainer_defeated    *)
(* and badge_earned are set only in trainer battles, badge_earned set       *)
(* implies trainer_defeated, and captured_to_storage true implies           *)
(* captured_monster is set.                                                 *)
C36_OutcomeFieldsConsistent ==
    InBattle =>
        /\ OutcomeConsistent(battle)
        /\ \A ev \in Events : \A r \in Outcomes(ev) : OutcomeConsistent(r)

\* a monster caught by a party at capacity: captured and bound for storage
C36_Witness ==
    /\ InBattle
    /\ battle.captured_to_storage
    /\ battle.captured_monster # None
    /\ battle.trainer_info = None
    /\ ~battle.trainer_defeated
    /\ battle.badge_earned = None

-----------------------------------------------------------------------------
\* handler call b -> r leaves every monster alone but the two that were
\* active in b, and keeps the party's members in their places
OnlyActiveChange(b, r) ==
    /\ Len(r.player_party) = Len(b.player_party)
    /\ Len(r.enemy_party) = Len(b.enemy_party)
    /\ \A i \in DOMAIN b.player_party :
          /\ r.player_party[i].name = b.player_party[i].name
          /\ r.player_party[i].moves = b.player_party[i].moves
          /\ i # b.active_index + 1 => r.player_party[i] = b.player_party[i]
    /\ \A j \in DOMAIN b.enemy_party :
          /\ r.enemy_party[j].name = b.enemy_party[j].name
          /\ j # b.enemy_active_index + 1 => r.enemy_party[j] = b.enemy_party[j]

(* C37: during a battle, an action changes the HP, level, exp or stats of   *)
(* at most the player monster and the enemy monster that are active when    *)
(* the action is taken; benched party members and non-active enemy team     *)
(* members are unchanged, and the membership and order of the player party  *)
(* never change.                                                            *)
C37_OnlyActiveChange ==
    InBattle =>
        /\ battle.player_party = player_party
        /\ \A ev \in Events : \A r \in Outcomes(ev) : OnlyActiveChange(battle, r)

\* the second member is out and has been hit; the first, benched, is untouched
C37_Witness ==
    /\ InBattle
    /\ ~battle.ended
    /\ Has(battle.calls, "execute_enemy_turn")
    /\ Len(battle.player_party) = 2
    /\ battle.active_index = 1
    /\ battle.player_party[2].current_hp < battle.player_party[2].max_hp
    /\ battle.player_party[1].current_hp = battle.player_party[1].max_hp

-----------------------------------------------------------------------------
\* end_battle has applied the outcome of a battle with a captured monster
CaptureApplied ==
    /\ game_mode = "battle"
    /\ game_mode' = "overworld"
    /\ battle.captured_monster # None

(* C38: after any sequence of battles, captures, deposits to storage,       *)
(* withdrawals from storage and reorders, the player party holds at least 1 *)
(* and at most MAX_PARTY_SIZE (6) monsters; a captured monster joins the    *)
(* party, at its end, only when the party has fewer than 6 members and      *)
(* otherwise goes to storage.                                               *)
C38_PartySize ==
    /\ [](Len(player_party) >= 1 /\ Len(player_party) <= 6)
    /\ [][CaptureApplied =>
             IF Len(player_party) < 6
             THEN /\ Len(player_party') = Len(player_party) + 1
                  /\ player_party'[Len(player_party')] = Value(battle.captured_monster)
                  /\ player_storage' = player_storage
             ELSE /\ Len(player_party') = 6
                  /\ player_storage' =
                        player_storage \o <<Value(battle.captured_monster)>>]_vars

\* a capture by a party of five has made the party full
C38_Witness ==
    /\ game_mode = "overworld"
    /\ Len(player_party) = 6
    /\ player_party[6].name = wild_pool[1]
    /\ player_storage = <<>>

-----------------------------------------------------------------------------
\* end_battle has applied the outcome of the battle
OutcomeApplied == game_mode = "battle" /\ game_mode' = "overworld"

(* C39: when a battle ends with every party monster fainted, end_battle     *)
(* restores every party monster to full HP and changes nothing else of it;  *)
(* hence immediately after any battle's outcomes are applied the party      *)
(* contains at least one non-fainted monster.                               *)
C39_RevivedAfterWipe ==
    [][OutcomeApplied =>
          /\ NoFighter(player_party) =>
                (/\ Len(player_party') = Len(player_party)
                 /\ \A i \in DOMAIN player_party :
                       /\ player_party'[i].current_hp = player_party[i].max_hp
                       /\ player_party'[i] =
                             [player_party[i] EXCEPT !.current_hp = player_party[i].max_hp])
          /\ \E i \in DOMAIN player_party' : player_party'[i].current_hp > 0]_vars

\* a battle that has ended with both party monsters fainted and is discarded
\* at the end of the frame
C39_Witness ==
    /\ InBattle
    /\ battle.ended
    /\ battle.message_queue = <<>>
    /\ ~battle.pending_enemy_turn
    /\ Len(player_party) = 2
    /\ NoFighter(player_party)
    /\ player_party = battle.player_party

-----------------------------------------------------------------------------
\* main has started a battle against a trainer
TrainerBattleStarted ==
    game_mode = "overworld" /\ game_mode' = "battle" /\ battle'.trainer_info # None

\* the id of the trainer of a trainer battle
TrainerId(b) == Value(b.trainer_info).id

\* a step onto the tile of this trainer starts a battle
Challengeable(trainer_id) ==
    /\ game_mode = "overworld"
    /\ \E tile \in DOMAIN TRAINER_TILES : TRAINER_TILES[tile] = trainer_id
    /\ trainer_id \notin defeated_trainers_set
    /\ ~InvalidParty(player_party)

====
